---- MODULE Spec2Model ----
(***************************************************************************)
(* YUMZY recipe backend: ratings, favorites, catalogue and rate limiting.   *)
(*                                                                         *)
(* The relational store is modelled as the committed tables `ratings`,     *)
(* `favorites` and `recipes`.  SpecRatings and SpecFavorites run the       *)
(* service handlers one request at a time (each handler is one atomic      *)
(* action).  SpecConcRatings and SpecConcFavorites run the same handlers   *)
(* as concurrent transactions, one action per database statement, under    *)
(* READ COMMITTED visibility: a statement sees every committed row plus    *)
(* the rows its own session has flushed.  The engine is postgresql         *)
(* (models.py, config.py) or sqlite (database.py default); sqlite admits   *)
(* one writer at a time.  SpecPage applies the pagination arithmetic to    *)
(* bounded inputs.  SpecCatalog answers one search, list, trending,        *)
(* detail, update or delete request over a stored catalogue of recipes.    *)
(* SpecRatingRoutes sends rating bodies inside and outside 1..5 through    *)
(* the routes.  SpecViews and SpecConcViews track recipe views, one        *)
(* request at a time and by concurrent workers.  SpecSimilar answers one   *)
(* similar-recipes request, SpecAnnotate one read request over a store     *)
(* with favorites and ratings, SpecPageBounds one list request with any    *)
(* page and limit.  SpecRegister registers users one after another and     *)
(* SpecLimiter calls one rate limiter as the clock moves on.               *)
(*                                                                         *)
(* average_rating is a float in the code; here it is the exact rational    *)
(* <<numerator, denominator>> in lowest terms (0.0 is <<0, 1>>).           *)
(***************************************************************************)
EXTENDS Integers, Sequences, FiniteSets, TLC

\* ---- bounds of the model ----
NumUsers == 2
NumRecipes == 2
MaxCalls == 4
MaxRatingCalls == 2
NumProcs == 2
MaxConcCalls == 2
MaxPage == 4
MaxLimit == 4
MaxTotal == 9
NumCatalogRecipes == 2
MaxCatalogPage == 2
MaxCatalogLimit == 2
\* calls to a rate limiter, steps of the clock and largest limit in one behaviour
MaxLimiterCalls == 4
MaxTicks == 2
MaxRateLimit == 2
\* number of registrations in one behaviour
MaxRegisterCalls == 3
\* recipes in the store of a similar-recipes request, and its largest limit
NumSimilarRecipes == 3
MaxSimilarLimit == 3
\* number of views tracked in one behaviour
MaxViewCalls == 3

\* ---- program constants ----
MinRating == 1
MaxRating == 5
\* the window of RateLimitMiddleware, in seconds
MinuteSeconds == 60
\* largest limit a list route is meant to accept
MaxPageLimit == 100

Users == 1..NumUsers
\* ids of the recipes that exist in the store
RecipeIds == 1..NumRecipes
\* one id that no recipe row has
MissingRecipe == NumRecipes + 1
RequestRecipeIds == RecipeIds \cup {MissingRecipe}
RatingValues == MinRating..MaxRating
\* the values a request body may carry, one below and one above the range included
SubmittedRatings == (MinRating - 1)..(MaxRating + 1)
NoComment == "None"
Comments == {NoComment, "tasty"}
Procs == 1..NumProcs
Engines == {"postgresql", "sqlite"}

VARIABLES
    engine,         \* the database the engine URL selects
    recipes,        \* committed recipes table: id -> counters
    ratings,        \* committed ratings table: set of rows
    favorites,      \* committed favorites table: set of rows
    nextRatingId,   \* next primary key of ratings
    nextFavoriteId, \* next primary key of favorites
    ncalls,         \* number of requests issued so far
    last,           \* the most recent completed request and its outcome
    tx,             \* per worker: the session of the request in flight
    writeLock,      \* sqlite: the worker holding the database write lock, or 0
    pgIn,           \* pagination inputs of the request under test
    envelope,       \* pagination envelope last returned
    catalog,        \* recipes table with the columns the catalogue reads: id -> row
    request,        \* the catalogue request under test
    response,       \* the response or error it got
    users,          \* committed users table: set of rows
    now,            \* the clock, in seconds
    rate_limiter,   \* RateLimiter.requests: identifier -> recorded call times
    middleware,     \* RateLimitMiddleware.requests: client ip -> recorded times
    passed,         \* the calls let through so far, in order
    tracked,        \* what the track_recipe_view calls did so far
    settings        \* the limit and the window the rate limiting runs with

dbvars == <<recipes, ratings, favorites, nextRatingId, nextFavoriteId>>
concvars == <<tx, writeLock>>
pagevars == <<pgIn, envelope>>
catvars == <<catalog, request, response>>
limvars == <<now, rate_limiter, middleware, passed, settings>>
auxvars == <<users, limvars, tracked>>
vars == <<engine, recipes, ratings, favorites, nextRatingId, nextFavoriteId,
          ncalls, last, tx, writeLock, pgIn, envelope, catalog, request, response,
          users, now, rate_limiter, middleware, passed, tracked, settings>>

\* ---- arithmetic helpers ----
RECURSIVE GCD(_, _)
GCD(a, b) == IF b = 0 THEN a ELSE GCD(b, a % b)

Max(a, b) == IF a >= b THEN a ELSE b

RECURSIVE SumRating(_)
SumRating(rows) ==
    IF rows = {} THEN 0
    ELSE LET row == CHOOSE x \in rows : TRUE
         IN row.rating + SumRating(rows \ {row})

\* ---- queries of RecipeService ----
RatingsOfRecipe(rows, recipe_id) == {row \in rows : row.recipe_id = recipe_id}

\* fault: the average is taken over the ratings of every recipe
AvgRating_AllRecipes(rows, recipe_id) ==
    LET s == SumRating(rows)
        n == Cardinality(rows)
    IN IF n = 0 \/ s = 0 THEN <<0, 1>>
       ELSE <<s \div GCD(s, n), n \div GCD(s, n)>>

\* db.query(func.avg(Rating.rating)).filter(recipe_id == ..).scalar(), then
\* float(avg_rating) if avg_rating else 0.0
AvgRating(rows, recipe_id) ==
    LET sel == RatingsOfRecipe(rows, recipe_id)
        s == SumRating(sel)
        n == Cardinality(sel)
    IN IF n = 0 \/ s = 0 THEN <<0, 1>>
       ELSE <<s \div GCD(s, n), n \div GCD(s, n)>>

\* db.query(func.count(Rating.id)).filter(recipe_id == ..).scalar()
CountRating(rows, recipe_id) == Cardinality(RatingsOfRecipe(rows, recipe_id))

\* rows a .first() on (recipe_id, user_id) may return (no ORDER BY)
MatchingRatings(rows, recipe_id, user_id) ==
    {row \in rows : row.recipe_id = recipe_id /\ row.user_id = user_id}

MatchingFavorites(rows, recipe_id, user_id) ==
    {row \in rows : row.recipe_id = recipe_id /\ row.user_id = user_id}

is_recipe_favorited(rows, recipe_id, user_id) ==
    MatchingFavorites(rows, recipe_id, user_id) # {}

\* ---- rows ----
NewRating(id, user_id, recipe_id, rating, comment) ==
    [id |-> id, user_id |-> user_id, recipe_id |-> recipe_id,
     rating |-> rating, comment |-> comment]

UpdatedRating(row, rating, comment) ==
    [row EXCEPT !.rating = rating, !.comment = comment]

NewFavorite(id, user_id, recipe_id) ==
    [id |-> id, user_id |-> user_id, recipe_id |-> recipe_id]

\* Recipe column defaults
NewRecipe == [average_rating |-> <<0, 1>>, rating_count |-> 0, favorite_count |-> 0]

\* ---- errors and their HTTP status ----
StatusCode(error) ==
    CASE error = "None" -> 200
      [] error = "RecipeNotFoundError" -> 404
      [] error = "RecipeAccessDeniedError" -> 403
      [] error = "FavoriteNotFoundError" -> 404
      [] error = "DuplicateFavoriteError" -> 409
      [] error = "RequestValidationError" -> 422
      [] error = "UserAlreadyExistsError" -> 409
      [] error = "HTTPException_400" -> 400
      [] OTHER -> 500

\* what a request was and how it ended: rating_id is the row a rating request
\* addressed or wrote, existed tells whether create_rating found a row to update
Outcome(op, user_id, recipe_id, rating_id, existed, rating, comment, error) ==
    [op |-> op, user_id |-> user_id, recipe_id |-> recipe_id, rating_id |-> rating_id,
     existed |-> existed, rating |-> rating, comment |-> comment, error |-> error]

NoCall == Outcome("none", 0, 0, 0, FALSE, 0, NoComment, "None")

IdleTx == [pc |-> "idle", op |-> "none", user_id |-> 0, recipe_id |-> 0,
           rating |-> 0, comment |-> NoComment, existing |-> 0, pending |-> 0,
           fc |-> 0, avg |-> <<0, 1>>, error |-> "None", view_count |-> 0]

\* ---- the catalogue: recipe rows, filters and responses ----

\* Optional values: None, or a one-element tuple holding the value
None == <<>>
Some(v) == <<v>>
\* an unauthenticated caller (user_id is None)
Anonymous == 0
Callers == Users \cup {Anonymous}

\* Python truthiness of an optional str, int and bool: None, "", 0 and False
\* are all falsy
TruthyStr(o) == o # None /\ o[1] # ""
TruthyInt(o) == o # None /\ o[1] # 0
TruthyBool(o) == o # None /\ o[1]
\* ... and of an optional text held as a tuple of characters
TruthyText(o) == o # None /\ o[1] # <<>>

\* SQL comparison of a nullable column with a value: NULL compares as unknown
\* and the row is filtered out
\* fault: a NULL column passes the comparison
SqlEq_NullMatches(col, v) == col = None \/ col[1] = v

SqlEq(col, v) == col # None /\ col[1] = v
SqlLe(col, v) == col # None /\ col[1] <= v

\* texts are tuples of characters
Lower(c) == CASE c = "P" -> "p" [] c = "E" -> "e" [] OTHER -> c
LowerText(t) == [i \in DOMAIN t |-> Lower(t[i])]
\* column ILIKE '%q%': q occurs in text, ignoring case
ILike(text, q) ==
    \E i \in 0..(Len(text) - Len(q)) :
        LowerText(SubSeq(text, i + 1, i + Len(q))) = LowerText(q)

Range(seq) == {seq[i] : i \in DOMAIN seq}

\* api/search.py: ingredients.split(',')
RECURSIVE Split(_)
Split(text) ==
    IF \A i \in DOMAIN text : text[i] # ","
    THEN <<text>>
    ELSE LET k == CHOOSE i \in DOMAIN text :
                      text[i] = "," /\ \A j \in 1..(i - 1) : text[j] # ","
         IN <<SubSeq(text, 1, k - 1)>> \o Split(SubSeq(text, k + 1, Len(text)))

\* str.strip()
RECURSIVE Strip(_)
Strip(text) ==
    IF text = <<>> THEN text
    ELSE IF Head(text) = " " THEN Strip(Tail(text))
    ELSE IF text[Len(text)] = " " THEN Strip(SubSeq(text, 1, Len(text) - 1))
    ELSE text

\* api/search.py: [ing.strip() for ing in ingredients.split(',') if ing.strip()],
\* the empty list when the parameter is absent or empty
ParseIngredients(ingredients) ==
    IF TruthyText(ingredients)
    THEN LET parts == Split(ingredients[1])
         IN SelectSeq([i \in DOMAIN parts |-> Strip(parts[i])], LAMBDA t : t # <<>>)
    ELSE <<>>

NoPage == [page |-> 0, limit |-> 0, total_count |-> 0]
NoEnvelope == [op |-> "none", total_pages |-> 0, has_next |-> FALSE, has_prev |-> FALSE]

\* ingredient names and texts used in the catalogue
Egg == <<"e", "g", "g">>
Flour == <<"f", "l", "o", "u", "r">>
Pie == <<"P", "i", "e">>
Tea == <<"t", "e", "a">>

\* database.Recipe: the columns the catalogue handlers read, before the row
\* gets its id; ingredients is the set of names joined through recipe_ingredients
BaseRecipe ==
    [author_id |-> 1, is_published |-> Some(TRUE), title |-> Pie, description |-> None,
     cuisine_type |-> Some("italian"), meal_type |-> Some("dinner"),
     difficulty_level |-> Some("easy"), prep_time |-> Some(30), cook_time |-> Some(30),
     total_time |-> Some(60), is_vegetarian |-> Some(TRUE), is_vegan |-> Some(TRUE),
     is_gluten_free |-> Some(FALSE), average_rating |-> <<4, 1>>, rating_count |-> 2,
     view_count |-> 1, favorite_count |-> 0, ingredients |-> {Egg, Flour}]

\* recipes a catalogue may hold: published and private ones of two authors,
\* with set, false and unset columns, and with equal and distinct scores
RecipeProfiles ==
    { BaseRecipe,
      [BaseRecipe EXCEPT !.author_id = 2, !.title = Tea, !.description = Some(Pie),
          !.cuisine_type = Some("mexican"), !.meal_type = Some("lunch"),
          !.difficulty_level = Some("hard"), !.prep_time = Some(60), !.cook_time = Some(0),
          !.is_vegetarian = Some(FALSE), !.is_vegan = Some(FALSE),
          !.is_gluten_free = Some(TRUE), !.average_rating = <<0, 1>>, !.rating_count = 0,
          !.view_count = 8, !.favorite_count = 3, !.ingredients = {Flour}],
      [BaseRecipe EXCEPT !.is_published = Some(FALSE), !.ingredients = {Egg},
          !.average_rating = <<5, 1>>, !.rating_count = 1, !.view_count = 0],
      [BaseRecipe EXCEPT !.author_id = 2, !.title = Tea, !.cuisine_type = None,
          !.meal_type = None, !.difficulty_level = None, !.prep_time = None,
          !.cook_time = None, !.total_time = Some(0), !.is_vegetarian = None,
          !.is_vegan = None, !.is_gluten_free = None, !.average_rating = <<7, 2>>,
          !.rating_count = 2, !.view_count = 0, !.ingredients = {}],
      [BaseRecipe EXCEPT !.is_vegan = Some(FALSE), !.prep_time = Some(0),
          !.cook_time = Some(0), !.total_time = Some(0), !.average_rating = <<5, 1>>,
          !.rating_count = 1, !.view_count = 3, !.favorite_count = 1,
          !.ingredients = {Egg}],
      [BaseRecipe EXCEPT !.author_id = 2, !.is_published = Some(FALSE),
          !.title = Tea, !.meal_type = Some("lunch"), !.ingredients = {Flour}] }

\* the row create_recipe stores: ids are handed out in creation order, so a
\* later row has the later created_at
StoredRecipe(profile, id) == profile @@ [id |-> id, created_at |-> id]

\* the filter dictionary of a search or list request; a key that is not
\* supplied is None, ingredients is the parsed list
NoFilters ==
    [query |-> None, ingredients |-> <<>>, cuisine_type |-> None, meal_type |-> None,
     difficulty_level |-> None, max_prep_time |-> None, max_cook_time |-> None,
     is_vegetarian |-> None, is_vegan |-> None, is_gluten_free |-> None,
     min_rating |-> None]

NoRequest == [op |-> "none", filters |-> NoFilters, page |-> 0, limit |-> 0,
              user_id |-> Anonymous, recipe_id |-> 0, cutoff |-> 0, payload |-> << >>]
\* rate limiting is not part of the behaviour
NoSettings == [limiter |-> "none", limit |-> 0, window |-> 0]
\* no view has been tracked
NoTracking == [calls |-> 0, store |-> "not_run", raised |-> "None"]
NoResponse == [error |-> "Pending", items |-> <<>>, total_count |-> 0,
               envelope |-> NoEnvelope, filters |-> NoFilters, annotations |-> <<>>]

Init ==
    /\ engine = "postgresql"
    /\ recipes = [r \in RecipeIds |-> NewRecipe]
    /\ ratings = {}
    /\ favorites = {}
    /\ nextRatingId = 1
    /\ nextFavoriteId = 1
    /\ ncalls = 0
    /\ last = NoCall
    /\ tx = [p \in Procs |-> IdleTx]
    /\ writeLock = 0
    /\ pgIn = NoPage
    /\ envelope = NoEnvelope
    /\ catalog = <<>>
    /\ request = NoRequest
    /\ response = NoResponse
    /\ users = {}
    /\ now = 0
    /\ rate_limiter = <<>>
    /\ middleware = <<>>
    /\ passed = <<>>
    /\ tracked = NoTracking
    /\ settings = NoSettings

\* ---- RecipeService handlers, one request at a time ----

\* fault: the existing row is ignored and a new row is always inserted
FlushRating_AlwaysInsert(rows, existing, id, user_id, recipe_id, rating, comment) ==
    rows \cup {NewRating(IF existing # 0 THEN id + existing ELSE id,
                         user_id, recipe_id, rating, comment)}

\* the flush of create_rating: update the existing row or insert a new one
FlushRating(rows, existing, id, user_id, recipe_id, rating, comment) ==
    IF existing # 0
    THEN {IF row.id = existing THEN UpdatedRating(row, rating, comment) ELSE row : row \in rows}
    ELSE rows \cup {NewRating(id, user_id, recipe_id, rating, comment)}

\* recipe.average_rating / recipe.rating_count assignment of create_rating
RecomputedRecipe(rec, rows, recipe_id) ==
    [rec EXCEPT !.average_rating = AvgRating(rows, recipe_id),
                !.rating_count = CountRating(rows, recipe_id)]

create_rating(user_id, recipe_id, rating, comment) ==
    /\ ncalls < MaxRatingCalls
    /\ ncalls' = ncalls + 1
    /\ IF recipe_id \notin DOMAIN recipes
       THEN /\ last' = Outcome("create_rating", user_id, recipe_id, 0, FALSE, 0,
                               NoComment, "RecipeNotFoundError")
            /\ UNCHANGED dbvars
       ELSE \E existing \in IF MatchingRatings(ratings, recipe_id, user_id) = {} THEN {0}
                            ELSE {row.id : row \in MatchingRatings(ratings, recipe_id, user_id)} :
              LET flushed == FlushRating(ratings, existing, nextRatingId,
                                         user_id, recipe_id, rating, comment)
              IN /\ ratings' = flushed
                 /\ nextRatingId' = IF existing = 0 THEN nextRatingId + 1 ELSE nextRatingId
                 /\ recipes' = [recipes EXCEPT ![recipe_id] =
                                    RecomputedRecipe(@, flushed, recipe_id)]
                 /\ last' = Outcome("create_rating", user_id, recipe_id,
                                     IF existing = 0 THEN nextRatingId ELSE existing,
                                     existing # 0, rating, comment, "None")
                 /\ UNCHANGED <<favorites, nextFavoriteId>>
    /\ UNCHANGED <<engine, auxvars, catvars, concvars, pagevars>>

\* fault: the rating field has no upper bound
ValidRating_NoUpper(rating) == rating >= MinRating

\* RatingBase.rating: int = Field(..., ge=1, le=5)
ValidRating(rating) == rating >= MinRating /\ rating <= MaxRating

\* the request is answered 422 before the route function runs
RejectedRating(op, user_id, recipe_id, rating_id, rating, comment) ==
    /\ ncalls < MaxRatingCalls
    /\ ncalls' = ncalls + 1
    /\ last' = Outcome(op, user_id, recipe_id, rating_id, FALSE, rating, comment,
                       "RequestValidationError")
    /\ UNCHANGED <<engine, auxvars, catvars, dbvars, concvars, pagevars>>

\* POST /social/ratings with body rating_data: RatingCreate
create_rating_route(current_user, recipe_id, rating, comment) ==
    IF ValidRating(rating)
    THEN create_rating(current_user, recipe_id, rating, comment)
    ELSE RejectedRating("create_rating", current_user, recipe_id, 0, rating, comment)

\* RecipeService.update_rating, which RecipeService does not define
update_rating(rating_id, rating, comment, user_id) ==
    /\ ncalls < MaxRatingCalls
    /\ ncalls' = ncalls + 1
    /\ rating \in RatingValues /\ comment \in Comments
    /\ last' = Outcome("update_rating", user_id, 0, rating_id, FALSE, 0, NoComment,
                       "AttributeError")
    /\ UNCHANGED <<engine, auxvars, catvars, dbvars, concvars, pagevars>>

\* PUT /social/ratings/{rating_id} with body rating_data: RatingCreate
update_rating_route(rating_id, rating, comment, current_user) ==
    IF ValidRating(rating)
    THEN update_rating(rating_id, rating, comment, current_user)
    ELSE RejectedRating("update_rating", current_user, 0, rating_id, rating, comment)

\* DELETE /social/ratings/{rating_id}: the route calls RecipeService.delete_rating,
\* which RecipeService does not define
delete_rating(rating_id, user_id) ==
    /\ ncalls < MaxRatingCalls
    /\ ncalls' = ncalls + 1
    /\ last' = Outcome("delete_rating", user_id, 0, rating_id, FALSE, 0, NoComment,
                       "AttributeError")
    /\ UNCHANGED <<engine, auxvars, catvars, dbvars, concvars, pagevars>>

\* fault: the stored counter is written back without the increment
IncrementedCount_Stale(favorite_count) == favorite_count

\* recipe.favorite_count = (recipe.favorite_count or 0) + 1
IncrementedCount(favorite_count) == favorite_count + 1

\* fault: the decrement is not floored at 0
DecrementedCount_NoFloor(favorite_count) == favorite_count - 1

\* recipe.favorite_count = max(0, (recipe.favorite_count or 0) - 1)
DecrementedCount(favorite_count) == Max(0, favorite_count - 1)

add_to_favorites(recipe_id, user_id) ==
    /\ ncalls < MaxCalls
    /\ ncalls' = ncalls + 1
    /\ IF recipe_id \notin DOMAIN recipes
       THEN /\ last' = Outcome("add_to_favorites", user_id, recipe_id, 0, FALSE, 0,
                               NoComment, "RecipeNotFoundError")
            /\ UNCHANGED dbvars
       ELSE IF is_recipe_favorited(favorites, recipe_id, user_id)
       THEN /\ last' = Outcome("add_to_favorites", user_id, recipe_id, 0, FALSE, 0,
                               NoComment, "ValueError")
            /\ UNCHANGED dbvars
       ELSE /\ favorites' = favorites \cup {NewFavorite(nextFavoriteId, user_id, recipe_id)}
            /\ nextFavoriteId' = nextFavoriteId + 1
            /\ recipes' = [recipes EXCEPT ![recipe_id].favorite_count =
                                                IncrementedCount(@)]
            /\ last' = Outcome("add_to_favorites", user_id, recipe_id, 0, FALSE, 0,
                            NoComment, "None")
            /\ UNCHANGED <<ratings, nextRatingId>>
    /\ UNCHANGED <<engine, auxvars, catvars, concvars, pagevars>>

remove_from_favorites(recipe_id, user_id) ==
    /\ ncalls < MaxCalls
    /\ ncalls' = ncalls + 1
    /\ IF MatchingFavorites(favorites, recipe_id, user_id) = {}
       THEN /\ last' = Outcome("remove_from_favorites", user_id, recipe_id, 0, FALSE, 0,
                               NoComment, "ValueError")
            /\ UNCHANGED dbvars
       ELSE \E favorite \in MatchingFavorites(favorites, recipe_id, user_id) :
              /\ favorites' = favorites \ {favorite}
              /\ recipes' = IF recipe_id \in DOMAIN recipes
                            THEN [recipes EXCEPT ![recipe_id].favorite_count =
                                               DecrementedCount(@)]
                            ELSE recipes
              /\ last' = Outcome("remove_from_favorites", user_id, recipe_id, 0, FALSE, 0,
                               NoComment, "None")
              /\ UNCHANGED <<ratings, nextRatingId, nextFavoriteId>>
    /\ UNCHANGED <<engine, auxvars, catvars, concvars, pagevars>>

NextRatings ==
    \/ \E u \in Users, r \in RequestRecipeIds, v \in RatingValues, c \in Comments :
         create_rating(u, r, v, c)
    \/ \E id \in 1..nextRatingId, v \in RatingValues, c \in Comments, u \in Users :
         update_rating(id, v, c, u)
    \/ \E id \in 1..nextRatingId, u \in Users : delete_rating(id, u)

\* sequential rating requests
SpecRatings == Init /\ [][NextRatings]_vars

NextRatingRoutes ==
    \/ \E u \in Users, r \in RequestRecipeIds, v \in SubmittedRatings :
         create_rating_route(u, r, v, NoComment)
    \/ \E id \in 1..nextRatingId, v \in SubmittedRatings, u \in Users :
         update_rating_route(id, v, NoComment, u)

\* sequential rating requests as the routes receive them, the rating of the
\* body inside or outside its range
SpecRatingRoutes == Init /\ [][NextRatingRoutes]_vars

NextFavorites ==
    \/ \E r \in RequestRecipeIds, u \in Users : add_to_favorites(r, u)
    \/ \E r \in RequestRecipeIds, u \in Users : remove_from_favorites(r, u)

\* sequential favorite requests
SpecFavorites == Init /\ [][NextFavorites]_vars

\* ---- the same handlers as concurrent transactions ----
\* Each worker serves one request at a time in its own session; every action
\* below is one database statement (or the commit) of the handler.

\* Stores the workers may start from: empty, or holding what one committed
\* create_rating(user 1, recipe 1, 3) and/or add_to_favorites(recipe 1, user 1)
\* leave behind.
SeedRatings == {{}, {NewRating(1, 1, 1, 3, NoComment)}}
SeedFavorites == {{}, {NewFavorite(1, 1, 1)}}

InitConc ==
    /\ engine \in Engines
    /\ ratings \in SeedRatings
    /\ favorites \in SeedFavorites
    /\ recipes = [r \in RecipeIds |->
                    [average_rating |-> AvgRating(ratings, r),
                     rating_count |-> CountRating(ratings, r),
                     favorite_count |-> Cardinality({f \in favorites : f.recipe_id = r})]]
    /\ nextRatingId = Cardinality(ratings) + 1
    /\ nextFavoriteId = Cardinality(favorites) + 1
    /\ ncalls = 0
    /\ last = NoCall
    /\ tx = [p \in Procs |-> IdleTx]
    /\ writeLock = 0
    /\ pgIn = NoPage
    /\ envelope = NoEnvelope
    /\ catalog = <<>>
    /\ request = NoRequest
    /\ response = NoResponse
    /\ users = {}
    /\ now = 0
    /\ rate_limiter = <<>>
    /\ middleware = <<>>
    /\ passed = <<>>
    /\ tracked = NoTracking
    /\ settings = NoSettings

\* a worker is idle before its first request and after each response
Idle(p) == tx[p].pc \in {"idle", "done"}

\* a new request goes to the first free worker (workers are interchangeable)
Free(p) == Idle(p) /\ \A q \in Procs : Idle(q) => p <= q

\* rows of ratings visible to worker p: committed rows plus its own flushed write
VisibleRatings(p) ==
    IF tx[p].pending = 0 THEN ratings
    ELSE FlushRating(ratings, tx[p].existing, tx[p].pending,
                     tx[p].user_id, tx[p].recipe_id, tx[p].rating, tx[p].comment)

\* sqlite allows one writer: a write statement needs the database write lock
CanWrite(p) == engine = "sqlite" => writeLock \in {0, p}

\* postgresql: an UPDATE waits while another session holds an uncommitted
\* write on the same row
RowFree(p, id) == \A q \in Procs \ {p} : tx[q].pending = 0 \/ tx[q].pending # id

\* the response of worker p's request; the session record is kept until the
\* worker takes its next request
Finish(p, error) ==
    tx' = [tx EXCEPT ![p].pc = "done", ![p].error = error, ![p].pending = 0]

\* the session record of a request that has just been accepted
StartTx(pc, op, user_id, recipe_id, rating, comment) ==
    [IdleTx EXCEPT !.pc = pc, !.op = op, !.user_id = user_id, !.recipe_id = recipe_id,
                   !.rating = rating, !.comment = comment]

\* create_rating: recipe = query(Recipe).filter(id == recipe_id).first()
CR_Begin(p, user_id, recipe_id, rating, comment) ==
    /\ Free(p)
    /\ ncalls < MaxConcCalls
    /\ ncalls' = ncalls + 1
    /\ tx' = [tx EXCEPT ![p] =
                IF recipe_id \notin DOMAIN recipes
                THEN [StartTx("done", "create_rating", user_id, recipe_id, rating, comment)
                        EXCEPT !.error = "RecipeNotFoundError"]
                ELSE StartTx("cr_lookup", "create_rating", user_id, recipe_id, rating,
                             comment)]
    /\ UNCHANGED <<engine, auxvars, catvars, dbvars, last, writeLock, pagevars>>

\* create_rating: existing_rating = query(Rating).filter(..).first()
CR_Lookup(p) ==
    /\ tx[p].pc = "cr_lookup"
    /\ \E existing \in IF MatchingRatings(ratings, tx[p].recipe_id, tx[p].user_id) = {}
                       THEN {0}
                       ELSE {row.id : row \in
                               MatchingRatings(ratings, tx[p].recipe_id, tx[p].user_id)} :
         tx' = [tx EXCEPT ![p].pc = "cr_flush", ![p].existing = existing]
    /\ UNCHANGED <<engine, auxvars, catvars, dbvars, ncalls, last, writeLock, pagevars>>

\* create_rating: self.db.flush() sends the UPDATE or the INSERT
CR_Flush(p) ==
    /\ tx[p].pc = "cr_flush"
    /\ CanWrite(p)
    /\ RowFree(p, tx[p].existing)
    /\ IF tx[p].existing # 0
       THEN /\ tx' = [tx EXCEPT ![p].pc = "cr_avg", ![p].pending = tx[p].existing]
            /\ UNCHANGED nextRatingId
       ELSE /\ tx' = [tx EXCEPT ![p].pc = "cr_avg", ![p].pending = nextRatingId]
            /\ nextRatingId' = nextRatingId + 1
    /\ writeLock' = IF engine = "sqlite" THEN p ELSE writeLock
    /\ UNCHANGED <<engine, auxvars, catvars, recipes, ratings, favorites, nextFavoriteId, ncalls, last,
                   pagevars>>

\* create_rating: avg_rating = query(func.avg(Rating.rating)).filter(..).scalar()
CR_Avg(p) ==
    /\ tx[p].pc = "cr_avg"
    /\ tx' = [tx EXCEPT ![p].pc = "cr_count",
                        ![p].avg = AvgRating(VisibleRatings(p), tx[p].recipe_id)]
    /\ UNCHANGED <<engine, auxvars, catvars, dbvars, ncalls, last, writeLock, pagevars>>

\* create_rating: rating_count = query(func.count(Rating.id)).filter(..).scalar()
CR_Count(p) ==
    /\ tx[p].pc = "cr_count"
    /\ tx' = [tx EXCEPT ![p].pc = "cr_commit",
                        ![p].fc = CountRating(VisibleRatings(p), tx[p].recipe_id)]
    /\ UNCHANGED <<engine, auxvars, catvars, dbvars, ncalls, last, writeLock, pagevars>>

\* create_rating: assign the aggregates to the recipe and commit
CR_Commit(p) ==
    /\ tx[p].pc = "cr_commit"
    /\ CanWrite(p)
    /\ ratings' = VisibleRatings(p)
    /\ recipes' = [recipes EXCEPT ![tx[p].recipe_id] =
                      [@ EXCEPT !.average_rating = tx[p].avg, !.rating_count = tx[p].fc]]
    /\ writeLock' = 0
    /\ Finish(p, "None")
    /\ UNCHANGED <<engine, auxvars, catvars, favorites, nextRatingId, nextFavoriteId, ncalls, last, pagevars>>

\* sqlite: a writer that waits for the write lock longer than the busy timeout
\* fails with OperationalError("database is locked"); nothing of it was written
BusyTimeout(p) ==
    /\ tx[p].pc \in {"cr_flush", "af_commit", "rf_commit"}
    /\ ~CanWrite(p)
    /\ Finish(p, "OperationalError")
    /\ UNCHANGED <<engine, auxvars, catvars, dbvars, ncalls, last, writeLock, pagevars>>

\* add_to_favorites: recipe = query(Recipe).filter(id == recipe_id).first()
AF_Begin(p, recipe_id, user_id) ==
    /\ Free(p)
    /\ ncalls < MaxConcCalls
    /\ ncalls' = ncalls + 1
    /\ tx' = [tx EXCEPT ![p] =
                IF recipe_id \notin DOMAIN recipes
                THEN [StartTx("done", "add_to_favorites", user_id, recipe_id, 0, NoComment)
                        EXCEPT !.error = "RecipeNotFoundError"]
                ELSE [StartTx("af_check", "add_to_favorites", user_id, recipe_id, 0,
                              NoComment)
                        EXCEPT !.fc = recipes[recipe_id].favorite_count]]
    /\ UNCHANGED <<engine, auxvars, catvars, dbvars, last, writeLock, pagevars>>

\* add_to_favorites: if self.is_recipe_favorited(recipe_id, user_id): raise ValueError
AF_Check(p) ==
    /\ tx[p].pc = "af_check"
    /\ IF is_recipe_favorited(favorites, tx[p].recipe_id, tx[p].user_id)
       THEN Finish(p, "ValueError")
       ELSE tx' = [tx EXCEPT ![p].pc = "af_commit"]
    /\ UNCHANGED <<engine, auxvars, catvars, dbvars, ncalls, last, writeLock, pagevars>>

\* add_to_favorites: db.add(favorite); recipe.favorite_count = loaded + 1; commit
AF_Commit(p) ==
    /\ tx[p].pc = "af_commit"
    /\ CanWrite(p)
    /\ favorites' = favorites \cup
                      {NewFavorite(nextFavoriteId, tx[p].user_id, tx[p].recipe_id)}
    /\ nextFavoriteId' = nextFavoriteId + 1
    /\ recipes' = [recipes EXCEPT ![tx[p].recipe_id].favorite_count =
                                   IncrementedCount(tx[p].fc)]
    /\ Finish(p, "None")
    /\ UNCHANGED <<engine, auxvars, catvars, ratings, nextRatingId, ncalls, last, writeLock, pagevars>>

\* remove_from_favorites: favorite = query(Favorite).filter(..).first()
RF_Begin(p, recipe_id, user_id) ==
    /\ Free(p)
    /\ ncalls < MaxConcCalls
    /\ ncalls' = ncalls + 1
    /\ IF MatchingFavorites(favorites, recipe_id, user_id) = {}
       THEN tx' = [tx EXCEPT ![p] =
                     [StartTx("done", "remove_from_favorites", user_id, recipe_id, 0,
                              NoComment) EXCEPT !.error = "ValueError"]]
       ELSE \E favorite \in MatchingFavorites(favorites, recipe_id, user_id) :
              tx' = [tx EXCEPT ![p] =
                       [StartTx("rf_recipe", "remove_from_favorites", user_id, recipe_id,
                                0, NoComment) EXCEPT !.existing = favorite.id]]
    /\ UNCHANGED <<engine, auxvars, catvars, dbvars, last, writeLock, pagevars>>

\* remove_from_favorites: db.delete(favorite); recipe = query(Recipe)..first()
RF_Recipe(p) ==
    /\ tx[p].pc = "rf_recipe"
    /\ tx' = [tx EXCEPT ![p].pc = "rf_commit",
                        ![p].fc = IF tx[p].recipe_id \in DOMAIN recipes
                                  THEN recipes[tx[p].recipe_id].favorite_count ELSE 0]
    /\ UNCHANGED <<engine, auxvars, catvars, dbvars, ncalls, last, writeLock, pagevars>>

\* remove_from_favorites: recipe.favorite_count = max(0, loaded - 1); commit
RF_Commit(p) ==
    /\ tx[p].pc = "rf_commit"
    /\ CanWrite(p)
    /\ favorites' = {row \in favorites : row.id # tx[p].existing}
    /\ recipes' = IF tx[p].recipe_id \in DOMAIN recipes
                  THEN [recipes EXCEPT ![tx[p].recipe_id].favorite_count =
                                           DecrementedCount(tx[p].fc)]
                  ELSE recipes
    /\ Finish(p, "None")
    /\ UNCHANGED <<engine, auxvars, catvars, ratings, nextRatingId, nextFavoriteId, ncalls, last, writeLock,
                   pagevars>>

NextConcRatings ==
    \/ \E p \in Procs, u \in Users, r \in RequestRecipeIds, v \in RatingValues :
         CR_Begin(p, u, r, v, NoComment)
    \/ \E p \in Procs : CR_Lookup(p)
    \/ \E p \in Procs : CR_Flush(p)
    \/ \E p \in Procs : CR_Avg(p)
    \/ \E p \in Procs : CR_Count(p)
    \/ \E p \in Procs : CR_Commit(p)
    \/ \E p \in Procs : BusyTimeout(p)

\* concurrent rating requests
SpecConcRatings == InitConc /\ [][NextConcRatings]_vars

NextConcFavorites ==
    \/ \E p \in Procs, r \in RequestRecipeIds, u \in Users : AF_Begin(p, r, u)
    \/ \E p \in Procs : AF_Check(p)
    \/ \E p \in Procs : AF_Commit(p)
    \/ \E p \in Procs, r \in RequestRecipeIds, u \in Users : RF_Begin(p, r, u)
    \/ \E p \in Procs : RF_Recipe(p)
    \/ \E p \in Procs : RF_Commit(p)

\* concurrent favorite requests
SpecConcFavorites == InitConc /\ [][NextConcFavorites]_vars

\* Sequential favorite requests from any store the races of SpecConcFavorites
\* can leave behind: favorite_count may already differ from the number of rows.
InitDrift ==
    /\ engine = "postgresql"
    /\ ratings = {}
    /\ favorites \in SeedFavorites
    /\ \E fc \in 0..1 :
         recipes = [r \in RecipeIds |->
                      IF r = 1 THEN [NewRecipe EXCEPT !.favorite_count = fc] ELSE NewRecipe]
    /\ nextRatingId = 1
    /\ nextFavoriteId = 3
    /\ ncalls = 0
    /\ last = NoCall
    /\ tx = [p \in Procs |-> IdleTx]
    /\ writeLock = 0
    /\ pgIn = NoPage
    /\ envelope = NoEnvelope
    /\ catalog = <<>>
    /\ request = NoRequest
    /\ response = NoResponse
    /\ users = {}
    /\ now = 0
    /\ rate_limiter = <<>>
    /\ middleware = <<>>
    /\ passed = <<>>
    /\ tracked = NoTracking
    /\ settings = NoSettings

SpecFavoritesDrift == InitDrift /\ [][NextFavorites]_vars

\* ---- pagination envelopes ----

\* RecipeService.get_recipes: total_pages, has_next, has_prev of the response
get_recipes_envelope(page, limit, total_count) ==
    LET total_pages == (total_count + limit - 1) \div limit
    IN [op |-> "get_recipes", total_pages |-> total_pages,
        has_next |-> page < total_pages, has_prev |-> page > 1]

\* fault: total_pages rounds down
search_recipes_envelope_Floor(page, limit, total_count) ==
    LET total_pages == total_count \div limit
    IN [op |-> "search_recipes", total_pages |-> total_pages,
        has_next |-> page < total_pages, has_prev |-> page > 1]

\* SearchService.search_recipes: total_pages, has_next, has_prev of the response
search_recipes_envelope(page, limit, total_count) ==
    LET total_pages == (total_count + limit - 1) \div limit
    IN [op |-> "search_recipes", total_pages |-> total_pages,
        has_next |-> page < total_pages, has_prev |-> page > 1]

\* core.utils.calculate_pagination
calculate_pagination(page, limit, total_count) ==
    LET total_pages == IF total_count > 0 THEN (total_count + limit - 1) \div limit ELSE 1
    IN [op |-> "calculate_pagination", total_pages |-> total_pages,
        has_next |-> page < total_pages, has_prev |-> page > 1]

\* a request with valid page and limit over a result set of total_count rows
InitPage ==
    /\ engine = "postgresql"
    /\ recipes = [r \in RecipeIds |-> NewRecipe]
    /\ ratings = {}
    /\ favorites = {}
    /\ nextRatingId = 1
    /\ nextFavoriteId = 1
    /\ ncalls = 0
    /\ last = NoCall
    /\ tx = [p \in Procs |-> IdleTx]
    /\ writeLock = 0
    /\ pgIn \in [page : 1..MaxPage, limit : 1..MaxLimit, total_count : 0..MaxTotal]
    /\ envelope = NoEnvelope
    /\ catalog = <<>>
    /\ request = NoRequest
    /\ response = NoResponse
    /\ users = {}
    /\ now = 0
    /\ rate_limiter = <<>>
    /\ middleware = <<>>
    /\ passed = <<>>
    /\ tracked = NoTracking
    /\ settings = NoSettings

CallGetRecipes ==
    /\ envelope' = get_recipes_envelope(pgIn.page, pgIn.limit, pgIn.total_count)
    /\ UNCHANGED <<engine, auxvars, catvars, dbvars, ncalls, last, concvars, pgIn>>

CallSearchRecipes ==
    /\ envelope' = search_recipes_envelope(pgIn.page, pgIn.limit, pgIn.total_count)
    /\ UNCHANGED <<engine, auxvars, catvars, dbvars, ncalls, last, concvars, pgIn>>

CallCalculatePagination ==
    /\ envelope' = calculate_pagination(pgIn.page, pgIn.limit, pgIn.total_count)
    /\ UNCHANGED <<engine, auxvars, catvars, dbvars, ncalls, last, concvars, pgIn>>

NextPage ==
    \/ CallGetRecipes
    \/ CallSearchRecipes
    \/ CallCalculatePagination

SpecPage == InitPage /\ [][NextPage]_vars

\* ---- catalogue queries ----
Min(a, b) == IF a <= b THEN a ELSE b

\* rationals <<numerator, denominator>> with a positive denominator
RatGe(x, y) == x[1] * y[2] >= y[1] * x[2]

\* Recipe.average_rating * Recipe.rating_count + Recipe.view_count
RelevanceScore(rec) ==
    <<rec.average_rating[1] * rec.rating_count + rec.view_count * rec.average_rating[2],
      rec.average_rating[2]>>

\* Recipe.view_count + Recipe.favorite_count * 2 + Recipe.rating_count * 3
TrendingScore(rec) == rec.view_count + rec.favorite_count * 2 + rec.rating_count * 3

\* ORDER BY ... DESC over the rows ids, ge holding the pairs <<a, b>> whose
\* key of a is at least that of b: every order the database may return, rows
\* with equal keys in any order
Orderings(ids, ge) ==
    {order \in [1..Cardinality(ids) -> ids] :
        /\ \A i, j \in DOMAIN order : i # j => order[i] # order[j]
        /\ \A i, j \in DOMAIN order : i < j => <<order[i], order[j]>> \in ge}

\* desc(Recipe.created_at)
ByCreatedAt(ids) ==
    {pair \in ids \X ids : catalog[pair[1]].created_at >= catalog[pair[2]].created_at}

\* desc(Recipe.average_rating * Recipe.rating_count + Recipe.view_count)
ByRelevance(ids) ==
    {pair \in ids \X ids :
        RatGe(RelevanceScore(catalog[pair[1]]), RelevanceScore(catalog[pair[2]]))}

\* desc(Recipe.view_count + Recipe.favorite_count * 2 + Recipe.rating_count * 3)
ByTrending(ids) ==
    {pair \in ids \X ids :
        TrendingScore(catalog[pair[1]]) >= TrendingScore(catalog[pair[2]])}

\* fault: the offset is dropped, every page is the first
OffsetLimit_NoOffset(order, offset, limit) == SubSeq(order, 1, Min(limit, Len(order)))

\* query.offset(offset).limit(limit).all()
OffsetLimit(order, offset, limit) ==
    SubSeq(order, offset + 1, Min(offset + limit, Len(order)))

\* the WHERE clause search_recipes builds for one row
SearchWhere(rec, filters) ==
    /\ SqlEq(rec.is_published, TRUE)
    /\ TruthyText(filters.query) =>
           \/ ILike(rec.title, filters.query[1])
           \/ rec.description # None /\ ILike(rec.description[1], filters.query[1])
    /\ filters.ingredients # <<>> =>
           \E name \in rec.ingredients : name \in Range(filters.ingredients)
    /\ TruthyStr(filters.cuisine_type) => SqlEq(rec.cuisine_type, filters.cuisine_type[1])
    /\ TruthyStr(filters.meal_type) => SqlEq(rec.meal_type, filters.meal_type[1])
    /\ TruthyStr(filters.difficulty_level) =>
           SqlEq(rec.difficulty_level, filters.difficulty_level[1])
    /\ TruthyInt(filters.max_prep_time) => SqlLe(rec.prep_time, filters.max_prep_time[1])
    /\ TruthyInt(filters.max_cook_time) => SqlLe(rec.cook_time, filters.max_cook_time[1])
    /\ TruthyBool(filters.is_vegetarian) =>
           SqlEq(rec.is_vegetarian, filters.is_vegetarian[1])
    /\ TruthyBool(filters.is_vegan) => SqlEq(rec.is_vegan, filters.is_vegan[1])
    /\ TruthyBool(filters.is_gluten_free) =>
           SqlEq(rec.is_gluten_free, filters.is_gluten_free[1])
    /\ TruthyInt(filters.min_rating) =>
           RatGe(rec.average_rating, <<filters.min_rating[1], 1>>)

\* the WHERE clause get_recipes builds for one row
ListWhere(rec, filters) ==
    /\ SqlEq(rec.is_published, TRUE)
    /\ TruthyStr(filters.cuisine_type) => SqlEq(rec.cuisine_type, filters.cuisine_type[1])
    /\ TruthyStr(filters.meal_type) => SqlEq(rec.meal_type, filters.meal_type[1])
    /\ TruthyStr(filters.difficulty_level) =>
           SqlEq(rec.difficulty_level, filters.difficulty_level[1])
    /\ TruthyInt(filters.max_prep_time) => SqlLe(rec.prep_time, filters.max_prep_time[1])
    /\ TruthyBool(filters.is_vegetarian) =>
           SqlEq(rec.is_vegetarian, filters.is_vegetarian[1])
    /\ TruthyBool(filters.is_vegan) => SqlEq(rec.is_vegan, filters.is_vegan[1])
    /\ TruthyBool(filters.is_gluten_free) =>
           SqlEq(rec.is_gluten_free, filters.is_gluten_free[1])

CatalogRequest(op, filters, page, limit, user_id, recipe_id, payload) ==
    [NoRequest EXCEPT !.op = op, !.filters = filters, !.page = page, !.limit = limit,
                      !.user_id = user_id, !.recipe_id = recipe_id, !.payload = payload]

\* fault: a search is ordered by creation date like browsing
SearchOrderings_ByDate(ids, filters) == Orderings(ids, ByCreatedAt(ids))

\* ORDER BY of search_recipes: relevance for a search, creation date for browsing
SearchOrderings(ids, filters) ==
    IF TruthyText(filters.query) \/ filters.ingredients # <<>>
    THEN Orderings(ids, ByRelevance(ids))
    ELSE Orderings(ids, ByCreatedAt(ids))

\* rating.rating if rating else None, for the row get_user_rating returns: the
\* .first() of the caller's rating rows of the recipe, in no stated order
UserRatings(recipe_id, user_id) ==
    IF MatchingRatings(ratings, recipe_id, user_id) = {} THEN {None}
    ELSE {Some(row.rating) : row \in MatchingRatings(ratings, recipe_id, user_id)}

\* fault: a favorite row of any user marks the recipe as favorited
UserAnnotations_AnyUser(recipe_id, user_id) ==
    IF user_id # Anonymous
    THEN {[is_favorited |-> \E row \in favorites : row.recipe_id = recipe_id,
           user_rating |-> rating] : rating \in UserRatings(recipe_id, user_id)}
    ELSE {[is_favorited |-> FALSE, user_rating |-> None]}

\* is_favorited and user_rating of one item: False and None unless `if user_id:`
UserAnnotations(recipe_id, user_id) ==
    IF user_id # Anonymous
    THEN {[is_favorited |-> is_recipe_favorited(favorites, recipe_id, user_id),
           user_rating |-> rating] : rating \in UserRatings(recipe_id, user_id)}
    ELSE {[is_favorited |-> FALSE, user_rating |-> None]}

\* the annotations of a result list, item by item
Annotated(items, user_id) ==
    LET values == UNION {UserAnnotations(items[i], user_id) : i \in DOMAIN items}
    IN {ann \in [DOMAIN items -> values] :
           \A i \in DOMAIN items : ann[i] \in UserAnnotations(items[i], user_id)}

\* SearchService.search_recipes
search_recipes(filters, page, limit, user_id) ==
    LET matched == {id \in DOMAIN catalog : SearchWhere(catalog[id], filters)}
        total_count == Cardinality(matched)
    IN /\ \E order \in SearchOrderings(matched, filters) :
          LET items == OffsetLimit(order, (page - 1) * limit, limit)
          IN \E ann \in Annotated(items, user_id) :
                response' = [error |-> "None",
                             items |-> items,
                             total_count |-> total_count,
                             envelope |-> search_recipes_envelope(page, limit, total_count),
                             filters |-> filters,
                             annotations |-> ann]
       /\ UNCHANGED <<engine, auxvars, dbvars, ncalls, last, concvars, pagevars, catalog, request>>

\* api/search.py search_recipes: parse the ingredient parameter, call the service
search_recipes_route(params, page, limit, current_user) ==
    search_recipes([params EXCEPT !.ingredients = ParseIngredients(@)],
                   page, limit, current_user)

\* RecipeService.get_recipes
get_recipes(page, limit, filters, user_id) ==
    LET matched == {id \in DOMAIN catalog : ListWhere(catalog[id], filters)}
        total_count == Cardinality(matched)
    IN /\ \E order \in Orderings(matched, ByCreatedAt(matched)) :
          LET items == OffsetLimit(order, (page - 1) * limit, limit)
          IN \E ann \in Annotated(items, user_id) :
                response' = [error |-> "None",
                             items |-> items,
                             total_count |-> total_count,
                             envelope |-> get_recipes_envelope(page, limit, total_count),
                             filters |-> filters,
                             annotations |-> ann]
       /\ UNCHANGED <<engine, auxvars, dbvars, ncalls, last, concvars, pagevars, catalog, request>>

\* SearchService.get_trending_recipes; cutoff is recent_date - timedelta(days=30)
get_trending_recipes(limit, user_id, cutoff) ==
    LET matched == {id \in DOMAIN catalog :
                      /\ SqlEq(catalog[id].is_published, TRUE)
                      /\ catalog[id].created_at >= cutoff}
    IN /\ \E order \in Orderings(matched, ByTrending(matched)) :
          \E ann \in Annotated(OffsetLimit(order, 0, limit), user_id) :
            response' = [error |-> "None", items |-> OffsetLimit(order, 0, limit),
                         total_count |-> 0, envelope |-> NoEnvelope, filters |-> NoFilters,
                         annotations |-> ann]
       /\ UNCHANGED <<engine, auxvars, dbvars, ncalls, last, concvars, pagevars, catalog, request>>

\* ---- single-recipe handlers ----

\* schemas.CuisineType, MealType and DifficultyLevel (the values the model uses)
CuisineTypes == {"italian", "mexican"}
MealTypes == {"lunch", "dinner"}
DifficultyLevels == {"easy", "hard"}

\* a RecipeUpdate body: a field the client did not send is None
NoUpdate ==
    [title |-> None, description |-> None, prep_time |-> None, cook_time |-> None,
     difficulty_level |-> None, cuisine_type |-> None, meal_type |-> None,
     is_published |-> None]

\* schemas.RecipeUpdate: the Field constraints pydantic checks on the body
ValidRecipeUpdate(payload) ==
    /\ payload.title # None => Len(payload.title[1]) >= 3 /\ Len(payload.title[1]) <= 200
    /\ payload.description # None => Len(payload.description[1]) <= 1000
    /\ payload.prep_time # None => payload.prep_time[1] >= 0 /\ payload.prep_time[1] <= 1440
    /\ payload.cook_time # None => payload.cook_time[1] >= 0 /\ payload.cook_time[1] <= 1440
    /\ payload.difficulty_level # None => payload.difficulty_level[1] \in DifficultyLevels
    /\ payload.cuisine_type # None => payload.cuisine_type[1] \in CuisineTypes
    /\ payload.meal_type # None => payload.meal_type[1] \in MealTypes

\* (value or 0) of a nullable integer column
OrZero(col) == IF col = None THEN 0 ELSE col[1]

\* update_recipe: setattr for every field sent, then total_time when a time changed
UpdatedRecipe(rec, payload) ==
    LET set == [rec EXCEPT
                  !.title = IF payload.title = None THEN @ ELSE payload.title[1],
                  !.description = IF payload.description = None THEN @
                                  ELSE payload.description,
                  !.prep_time = IF payload.prep_time = None THEN @ ELSE payload.prep_time,
                  !.cook_time = IF payload.cook_time = None THEN @ ELSE payload.cook_time,
                  !.difficulty_level = IF payload.difficulty_level = None THEN @
                                       ELSE payload.difficulty_level,
                  !.cuisine_type = IF payload.cuisine_type = None THEN @
                                   ELSE payload.cuisine_type,
                  !.meal_type = IF payload.meal_type = None THEN @ ELSE payload.meal_type,
                  !.is_published = IF payload.is_published = None THEN @
                                   ELSE payload.is_published]
    IN IF payload.prep_time # None \/ payload.cook_time # None
       THEN [set EXCEPT !.total_time = Some(OrZero(set.prep_time) + OrZero(set.cook_time))]
       ELSE set

\* the answer of a single-recipe handler: an error, or the recipe it concerns
RecipeAnswer(error, ids) ==
    [NoResponse EXCEPT !.error = error, !.items = ids]

\* fault: the check denies unless the caller is the author of a published recipe
CanViewRecipe_AuthorOnly(rec, user_id) ==
    TruthyBool(rec.is_published) /\ rec.author_id = user_id

\* get_recipe_detailed: not (not recipe.is_published and recipe.author_id != user_id)
CanViewRecipe(rec, user_id) == TruthyBool(rec.is_published) \/ rec.author_id = user_id

\* what RecipeService.get_recipe_detailed may return or raise
RecipeDetailed(recipe_id, user_id) ==
    IF recipe_id \notin DOMAIN catalog THEN {RecipeAnswer("RecipeNotFoundError", <<>>)}
    ELSE IF ~CanViewRecipe(catalog[recipe_id], user_id)
         THEN {RecipeAnswer("RecipeAccessDeniedError", <<>>)}
    ELSE {[RecipeAnswer("None", <<recipe_id>>) EXCEPT !.annotations = ann] :
             ann \in Annotated(<<recipe_id>>, user_id)}

\* RecipeService.get_recipe_detailed
get_recipe_detailed(recipe_id, user_id) ==
    /\ response' \in RecipeDetailed(recipe_id, user_id)
    /\ UNCHANGED <<engine, auxvars, dbvars, ncalls, last, concvars, pagevars, catalog, request>>

\* RecipeService.update_recipe
update_recipe(recipe_id, recipe_update, user_id) ==
    /\ IF recipe_id \notin DOMAIN catalog
       THEN /\ response' = RecipeAnswer("RecipeNotFoundError", <<>>)
            /\ UNCHANGED catalog
       ELSE IF catalog[recipe_id].author_id # user_id
       THEN /\ response' = RecipeAnswer("RecipeAccessDeniedError", <<>>)
            /\ UNCHANGED catalog
       ELSE /\ catalog' = [catalog EXCEPT
                             ![recipe_id] = UpdatedRecipe(catalog[recipe_id], recipe_update)]
            /\ response' = RecipeAnswer("None", <<recipe_id>>)
    /\ UNCHANGED <<engine, auxvars, dbvars, ncalls, last, concvars, pagevars, request>>

\* api/recipes.py update_recipe: the body is validated against RecipeUpdate
\* before the route function, and with it the service, runs
update_recipe_route(recipe_id, recipe_update, current_user) ==
    IF ValidRecipeUpdate(recipe_update)
    THEN update_recipe(recipe_id, recipe_update, current_user)
    ELSE /\ response' = RecipeAnswer("RequestValidationError", <<>>)
         /\ UNCHANGED <<engine, auxvars, dbvars, ncalls, last, concvars, pagevars, catalog, request>>

\* RecipeService.delete_recipe
delete_recipe(recipe_id, user_id) ==
    /\ IF recipe_id \notin DOMAIN catalog
       THEN /\ response' = RecipeAnswer("RecipeNotFoundError", <<>>)
            /\ UNCHANGED catalog
       ELSE IF catalog[recipe_id].author_id # user_id
       THEN /\ response' = RecipeAnswer("RecipeAccessDeniedError", <<>>)
            /\ UNCHANGED catalog
       ELSE /\ catalog' = [id \in DOMAIN catalog \ {recipe_id} |-> catalog[id]]
            /\ response' = RecipeAnswer("None", <<>>)
    /\ UNCHANGED <<engine, auxvars, dbvars, ncalls, last, concvars, pagevars, request>>

\* ---- catalogue requests ----
CatalogIds == 1..NumCatalogRecipes

\* query parameters a client may send: absent, empty or zero, and a real value
QueryParams == {Some(<<>>), Some(<<"p", "i">>)}
IngredientParams == {Some(<<>>), Some(Egg), Some(Egg \o <<",", " ">> \o Flour),
                     Some(<<" ", ",">>)}
SingleParams ==
    {[NoFilters EXCEPT !.query = v] : v \in QueryParams}
    \cup {[NoFilters EXCEPT !.ingredients = v] : v \in IngredientParams}
    \cup {[NoFilters EXCEPT !.cuisine_type = v] : v \in {Some(""), Some("italian")}}
    \cup {[NoFilters EXCEPT !.meal_type = v] : v \in {Some(""), Some("lunch")}}
    \cup {[NoFilters EXCEPT !.difficulty_level = v] : v \in {Some(""), Some("easy")}}
    \cup {[NoFilters EXCEPT !.max_prep_time = v] : v \in {Some(0), Some(30)}}
    \cup {[NoFilters EXCEPT !.max_cook_time = v] : v \in {Some(0), Some(30)}}
    \cup {[NoFilters EXCEPT !.is_vegetarian = Some(v)] : v \in BOOLEAN}
    \cup {[NoFilters EXCEPT !.is_vegan = Some(v)] : v \in BOOLEAN}
    \cup {[NoFilters EXCEPT !.is_gluten_free = Some(v)] : v \in BOOLEAN}
    \cup {[NoFilters EXCEPT !.min_rating = v] : v \in {Some(0), Some(4)}}

\* no parameter, one parameter, or one parameter next to is_vegan=true or to
\* an ingredient
SearchParams ==
    {NoFilters} \cup SingleParams
    \cup {[f EXCEPT !.is_vegan = Some(TRUE)] : f \in SingleParams}
    \cup {[f EXCEPT !.ingredients = Some(Egg)] : f \in SingleParams}

\* api/recipes.py get_recipes: the seven optional filters, None values removed
ListParams ==
    {f \in SearchParams : /\ f.query = None /\ f.ingredients = None
                          /\ f.max_cook_time = None /\ f.min_rating = None}

\* the callers of a catalogue request: the anonymous one and the authors of
\* the stored recipes; an author is a stranger to the other author's recipes
CatalogCallers == {Anonymous} \cup {profile.author_id : profile \in RecipeProfiles}

\* the windows a client asks for: every page up to the first one that starts
\* beyond a full catalogue
CatalogPages ==
    {w \in (1..MaxCatalogPage) \X (1..MaxCatalogLimit) :
        (w[1] - 1) * w[2] <= NumCatalogRecipes}

\* the requests under test
SearchRequests ==
    {CatalogRequest("search_recipes", f, w[1], w[2], u, 0, << >>) :
        f \in SearchParams, w \in CatalogPages, u \in CatalogCallers}
ListRequests ==
    {CatalogRequest("get_recipes", f, w[1], w[2], u, 0, << >>) :
        f \in ListParams, w \in CatalogPages, u \in CatalogCallers}
TrendingRequests ==
    {[CatalogRequest("get_trending_recipes", NoFilters, 0, limit, u, 0, << >>)
        EXCEPT !.cutoff = cutoff] :
        limit \in 1..MaxCatalogLimit, u \in CatalogCallers,
        cutoff \in 0..NumCatalogRecipes}

\* bodies a client may send to PUT /recipes/{id}: nothing, valid fields and
\* fields RecipeUpdate rejects
UpdatePayloads ==
    { NoUpdate,
      [NoUpdate EXCEPT !.prep_time = Some(10)],
      [NoUpdate EXCEPT !.cook_time = Some(0), !.is_published = Some(FALSE)],
      [NoUpdate EXCEPT !.title = Some(Tea), !.cuisine_type = Some("mexican")],
      [NoUpdate EXCEPT !.prep_time = Some(-1)],
      [NoUpdate EXCEPT !.title = Some(<<"P">>)],
      [NoUpdate EXCEPT !.cuisine_type = Some("klingon"), !.is_published = Some(TRUE)] }

RequestCatalogIds == CatalogIds \cup {NumCatalogRecipes + 1}

DetailRequests ==
    {CatalogRequest("get_recipe_detailed", NoFilters, 0, 0, u, id, << >>) :
        u \in CatalogCallers, id \in RequestCatalogIds}
\* update and delete need a logged-in user (get_current_user)
UpdateRequests ==
    {CatalogRequest("update_recipe", NoFilters, 0, 0, u, id, payload) :
        u \in CatalogCallers \ {Anonymous}, id \in RequestCatalogIds,
        payload \in UpdatePayloads}
DeleteRequests ==
    {CatalogRequest("delete_recipe", NoFilters, 0, 0, u, id, << >>) :
        u \in CatalogCallers \ {Anonymous}, id \in RequestCatalogIds}

\* a stored catalogue and one incoming request
InitCatalog ==
    /\ engine = "postgresql"
    /\ recipes = [r \in RecipeIds |-> NewRecipe]
    /\ ratings = {}
    /\ favorites = {}
    /\ nextRatingId = 1
    /\ nextFavoriteId = 1
    /\ ncalls = 0
    /\ last = NoCall
    /\ tx = [p \in Procs |-> IdleTx]
    /\ writeLock = 0
    /\ pgIn = NoPage
    /\ envelope = NoEnvelope
    /\ \E profile \in [CatalogIds -> RecipeProfiles] :
         catalog = [id \in CatalogIds |-> StoredRecipe(profile[id], id)]
    /\ request \in SearchRequests \cup ListRequests \cup TrendingRequests
                   \cup DetailRequests \cup UpdateRequests \cup DeleteRequests
    /\ response = NoResponse
    /\ users = {}
    /\ now = 0
    /\ rate_limiter = <<>>
    /\ middleware = <<>>
    /\ passed = <<>>
    /\ tracked = NoTracking
    /\ settings = NoSettings

\* the router hands the request to the handler of its path
NextCatalog ==
    \/ /\ request.op = "search_recipes"
       /\ search_recipes_route(request.filters, request.page, request.limit, request.user_id)
    \/ /\ request.op = "get_recipes"
       /\ get_recipes(request.page, request.limit, request.filters, request.user_id)
    \/ /\ request.op = "get_trending_recipes"
       /\ get_trending_recipes(request.limit, request.user_id, request.cutoff)
    \/ /\ request.op = "get_recipe_detailed"
       /\ get_recipe_detailed(request.recipe_id, request.user_id)
    \/ /\ request.op = "update_recipe"
       /\ update_recipe_route(request.recipe_id, request.payload, request.user_id)
    \/ /\ request.op = "delete_recipe"
       /\ delete_recipe(request.recipe_id, request.user_id)

\* one catalogue request over a stored catalogue
SpecCatalog == InitCatalog /\ [][NextCatalog]_vars

\* ---- view tracking ----

\* fault: the except clause re-raises
Swallowed_Reraised(exc) == exc

\* except Exception as e: logger.error(...): nothing reaches the caller
Swallowed(exc) == "None"

\* recipe.view_count = (recipe.view_count or 0) + 1
ViewedRecipe(rec) == [rec EXCEPT !.view_count = @ + 1]

\* RecipeService.track_recipe_view as its caller sees it: the store after the
\* call and the error that reaches the caller; store_fails is a query or a
\* commit that raises inside the try block
TrackedView(store, recipe_id, store_fails) ==
    IF store_fails
    THEN [catalog |-> store, store |-> "failed", raised |-> Swallowed("OperationalError")]
    ELSE IF recipe_id \in DOMAIN store
    THEN [catalog |-> [store EXCEPT ![recipe_id] = ViewedRecipe(@)],
          store |-> "counted", raised |-> "None"]
    ELSE [catalog |-> store, store |-> "missing", raised |-> "None"]

\* RecipeService.track_recipe_view called on its own
track_recipe_view(recipe_id, user_id) ==
    /\ tracked.calls < MaxViewCalls
    /\ \E store_fails \in BOOLEAN :
         LET view == TrackedView(catalog, recipe_id, store_fails)
         IN /\ catalog' = view.catalog
            /\ tracked' = [calls |-> tracked.calls + 1, store |-> view.store,
                           raised |-> view.raised]
    /\ response' = RecipeAnswer("None", <<>>)
    /\ UNCHANGED <<engine, users, limvars, dbvars, ncalls, last, concvars, pagevars, request>>

\* GET /recipes/{recipe_id}: get_recipe_detailed gives the response; the
\* tracking task is attached to that response and runs after it, so a request
\* that ends in an error runs no task
get_recipe(recipe_id, current_user) ==
    /\ tracked.calls < MaxViewCalls
    /\ response' \in RecipeDetailed(recipe_id, current_user)
    /\ IF response'.error = "None"
       THEN \E store_fails \in BOOLEAN :
              LET view == TrackedView(catalog, recipe_id, store_fails)
              IN /\ catalog' = view.catalog
                 /\ tracked' = [calls |-> tracked.calls + 1, store |-> view.store,
                                raised |-> view.raised]
       ELSE /\ tracked' = [calls |-> tracked.calls + 1, store |-> "not_run",
                           raised |-> "None"]
            /\ UNCHANGED catalog
    /\ UNCHANGED <<engine, users, limvars, dbvars, ncalls, last, concvars, pagevars, request>>

ViewRequests ==
    {CatalogRequest(op, NoFilters, 0, 0, u, id, << >>) :
        op \in {"get_recipe", "track_recipe_view"}, u \in Callers, id \in RequestCatalogIds}

\* a stored catalogue and one client that asks for the same recipe again and again
InitViews ==
    /\ engine = "postgresql"
    /\ recipes = [r \in RecipeIds |-> NewRecipe]
    /\ ratings = {}
    /\ favorites = {}
    /\ nextRatingId = 1
    /\ nextFavoriteId = 1
    /\ ncalls = 0
    /\ last = NoCall
    /\ tx = [p \in Procs |-> IdleTx]
    /\ writeLock = 0
    /\ pgIn = NoPage
    /\ envelope = NoEnvelope
    /\ \E profile \in [CatalogIds -> RecipeProfiles] :
         catalog = [id \in CatalogIds |-> StoredRecipe(profile[id], id)]
    /\ request \in ViewRequests
    /\ response = NoResponse
    /\ users = {}
    /\ now = 0
    /\ rate_limiter = <<>>
    /\ middleware = <<>>
    /\ passed = <<>>
    /\ tracked = NoTracking
    /\ settings = NoSettings

NextViews ==
    \/ /\ request.op = "get_recipe"
       /\ get_recipe(request.recipe_id, request.user_id)
    \/ /\ request.op = "track_recipe_view"
       /\ track_recipe_view(request.recipe_id, request.user_id)

\* repeated views of one recipe, one request at a time
SpecViews == InitViews /\ [][NextViews]_vars

\* ---- view tracking by concurrent workers ----
\* Each tracking task runs in a worker thread with the session of its own
\* request; the SELECT and the UPDATE with COMMIT are separate statements.

\* recipe = self.db.query(Recipe).filter(Recipe.id == recipe_id).first()
TV_Read(p, recipe_id) ==
    /\ tx[p].pc \in {"idle", "done"}
    /\ tracked.calls < MaxViewCalls
    /\ tracked' = [tracked EXCEPT !.calls = @ + 1]
    /\ tx' = [tx EXCEPT ![p] =
                IF recipe_id \in DOMAIN catalog
                THEN [IdleTx EXCEPT !.pc = "tv_write", !.op = "track_recipe_view",
                                    !.recipe_id = recipe_id,
                                    !.view_count = catalog[recipe_id].view_count]
                ELSE [IdleTx EXCEPT !.pc = "done", !.op = "track_recipe_view",
                                    !.recipe_id = recipe_id]]
    /\ UNCHANGED <<engine, users, limvars, catvars, dbvars, ncalls, last, writeLock, pagevars>>

\* recipe.view_count = (recipe.view_count or 0) + 1; self.db.commit(): the
\* UPDATE sets the column to the value computed from the row as it was read
TV_Commit(p) ==
    /\ tx[p].pc = "tv_write"
    /\ catalog' = [catalog EXCEPT ![tx[p].recipe_id].view_count = tx[p].view_count + 1]
    /\ tx' = [tx EXCEPT ![p].pc = "done"]
    /\ UNCHANGED <<engine, auxvars, dbvars, ncalls, last, writeLock, pagevars, request,
                   response>>

InitConcViews ==
    /\ engine \in Engines
    /\ recipes = [r \in RecipeIds |-> NewRecipe]
    /\ ratings = {}
    /\ favorites = {}
    /\ nextRatingId = 1
    /\ nextFavoriteId = 1
    /\ ncalls = 0
    /\ last = NoCall
    /\ tx = [p \in Procs |-> IdleTx]
    /\ writeLock = 0
    /\ pgIn = NoPage
    /\ envelope = NoEnvelope
    /\ \E profile \in [CatalogIds -> RecipeProfiles] :
         catalog = [id \in CatalogIds |-> StoredRecipe(profile[id], id)]
    /\ request = NoRequest
    /\ response = NoResponse
    /\ users = {}
    /\ now = 0
    /\ rate_limiter = <<>>
    /\ middleware = <<>>
    /\ passed = <<>>
    /\ tracked = NoTracking
    /\ settings = NoSettings

NextConcViews ==
    \/ \E p \in Procs, recipe_id \in RequestCatalogIds : TV_Read(p, recipe_id)
    \/ \E p \in Procs : TV_Commit(p)

\* tracking tasks of concurrent requests
SpecConcViews == InitConcViews /\ [][NextConcViews]_vars

\* ---- similar recipes ----

\* Recipe.column == value with a Python value: a None value renders IS NULL
ColumnIs(col, value) == IF value = None THEN col = None ELSE SqlEq(col, value[1])

\* desc(Recipe.average_rating)
ByAverageRating(ids) ==
    {pair \in ids \X ids :
        RatGe(catalog[pair[1]].average_rating, catalog[pair[2]].average_rating)}

\* the ids of a result list
IdsOf(order) == {order[i] : i \in DOMAIN order}

\* fault: the source recipe is not excluded
SimilarWhere_WithSelf(rec, source) ==
    /\ SqlEq(rec.is_published, TRUE)
    /\ \/ ColumnIs(rec.cuisine_type, source.cuisine_type)
       \/ ColumnIs(rec.meal_type, source.meal_type)

\* the WHERE clause of RecipeService.get_similar_recipes for one row
SimilarWhere(rec, source) ==
    /\ rec.id # source.id
    /\ SqlEq(rec.is_published, TRUE)
    /\ \/ ColumnIs(rec.cuisine_type, source.cuisine_type)
       \/ ColumnIs(rec.meal_type, source.meal_type)

\* every list RecipeService.get_similar_recipes may return
SimilarRecipes(recipe_id, limit) ==
    IF recipe_id \notin DOMAIN catalog THEN {<<>>}
    ELSE LET ids == {id \in DOMAIN catalog : SimilarWhere(catalog[id], catalog[recipe_id])}
         IN {OffsetLimit(order, 0, limit) : order \in Orderings(ids, ByAverageRating(ids))}

\* RecipeService.get_similar_recipes
get_similar_recipes(recipe_id, limit) ==
    /\ \E items \in SimilarRecipes(recipe_id, limit) :
         response' = RecipeAnswer("None", items)
    /\ UNCHANGED <<engine, auxvars, dbvars, ncalls, last, concvars, pagevars, catalog, request>>

\* first query of RecommendationService.get_similar_recipes: cuisine and meal
CuisineAndMealWhere(rec, source, exclude_ids) ==
    /\ SqlEq(rec.is_published, TRUE)
    /\ rec.id \notin exclude_ids
    /\ ColumnIs(rec.cuisine_type, source.cuisine_type)
    /\ ColumnIs(rec.meal_type, source.meal_type)

\* its second query: cuisine only, the rows of the first result excluded
CuisineWhere(rec, source, exclude_ids) ==
    /\ SqlEq(rec.is_published, TRUE)
    /\ rec.id \notin exclude_ids
    /\ ColumnIs(rec.cuisine_type, source.cuisine_type)

\* every list the second query may add to the list similar_recipes
Broadened(similar_recipes, source, exclude_ids, limit) ==
    IF Len(similar_recipes) < limit
    THEN LET more == {id \in DOMAIN catalog :
                        CuisineWhere(catalog[id], source,
                                     exclude_ids \cup IdsOf(similar_recipes))}
         IN {similar_recipes \o OffsetLimit(order, 0, limit - Len(similar_recipes)) :
                order \in Orderings(more, ByAverageRating(more))}
    ELSE {similar_recipes}

\* every list RecommendationService.get_similar_recipes may return
RecommendedSimilar(recipe_id, limit, exclude_recipe_ids) ==
    IF recipe_id \notin DOMAIN catalog THEN {<<>>}
    ELSE LET source == catalog[recipe_id]
             exclude_ids == exclude_recipe_ids \cup {recipe_id}
             ids == {id \in DOMAIN catalog :
                        CuisineAndMealWhere(catalog[id], source, exclude_ids)}
         IN UNION { {OffsetLimit(all, 0, limit) :
                        all \in Broadened(OffsetLimit(order, 0, limit), source,
                                          exclude_ids, limit)} :
                    order \in Orderings(ids, ByAverageRating(ids)) }

\* RecommendationService.get_similar_recipes
recommendation_get_similar_recipes(recipe_id, limit, exclude_recipe_ids) ==
    /\ \E items \in RecommendedSimilar(recipe_id, limit, exclude_recipe_ids) :
         response' = RecipeAnswer("None", items)
    /\ UNCHANGED <<engine, auxvars, dbvars, ncalls, last, concvars, pagevars, catalog, request>>

\* the columns the similarity queries read: cuisine, meal, publication, rating
SimilarProfiles ==
    { BaseRecipe,
      [BaseRecipe EXCEPT !.meal_type = Some("lunch"), !.average_rating = <<5, 1>>,
          !.rating_count = 1],
      [BaseRecipe EXCEPT !.cuisine_type = Some("mexican"), !.average_rating = <<0, 1>>,
          !.rating_count = 0],
      [BaseRecipe EXCEPT !.is_published = Some(FALSE), !.average_rating = <<5, 1>>,
          !.rating_count = 1],
      [BaseRecipe EXCEPT !.cuisine_type = None, !.meal_type = None,
          !.average_rating = <<7, 2>>],
      [BaseRecipe EXCEPT !.cuisine_type = Some("mexican"), !.meal_type = Some("lunch")] }

SimilarIds == 1..NumSimilarRecipes

SimilarRequests ==
    {[NoRequest EXCEPT !.op = "get_similar_recipes", !.recipe_id = id, !.limit = limit] :
        id \in 1..(NumSimilarRecipes + 1), limit \in 0..MaxSimilarLimit}
    \cup
    {[NoRequest EXCEPT !.op = "recommendation_get_similar_recipes", !.recipe_id = id,
                       !.limit = limit, !.payload = exclude] :
        id \in 1..(NumSimilarRecipes + 1), limit \in 0..MaxSimilarLimit,
        exclude \in {{}, {1}}}

\* a stored catalogue and one request for the recipes similar to one of them
InitSimilar ==
    /\ engine = "postgresql"
    /\ recipes = [r \in RecipeIds |-> NewRecipe]
    /\ ratings = {}
    /\ favorites = {}
    /\ nextRatingId = 1
    /\ nextFavoriteId = 1
    /\ ncalls = 0
    /\ last = NoCall
    /\ tx = [p \in Procs |-> IdleTx]
    /\ writeLock = 0
    /\ pgIn = NoPage
    /\ envelope = NoEnvelope
    /\ \E profile \in [SimilarIds -> SimilarProfiles] :
         catalog = [id \in SimilarIds |-> StoredRecipe(profile[id], id)]
    /\ request \in SimilarRequests
    /\ response = NoResponse
    /\ users = {}
    /\ now = 0
    /\ rate_limiter = <<>>
    /\ middleware = <<>>
    /\ passed = <<>>
    /\ tracked = NoTracking
    /\ settings = NoSettings

NextSimilar ==
    \/ /\ request.op = "get_similar_recipes"
       /\ get_similar_recipes(request.recipe_id, request.limit)
    \/ /\ request.op = "recommendation_get_similar_recipes"
       /\ recommendation_get_similar_recipes(request.recipe_id, request.limit,
                                             request.payload)

\* one similar-recipes request over a stored catalogue
SpecSimilar == InitSimilar /\ [][NextSimilar]_vars

\* ---- page and limit of the list routes ----

\* api/search.py: page: int = Query(1, ge=1)
ValidPage(page) == page >= 1

\* api/search.py: limit: int = Query(20, ge=1, le=100)
ValidLimit(limit) == limit >= 1 /\ limit <= MaxPageLimit

\* offset = (page - 1) * limit
Offset(page, limit) == (page - 1) * limit

\* query.offset(offset).limit(limit).all(): PostgreSQL refuses a negative
\* OFFSET, SQLite reads it as 0
PagedQueryError(page, limit) ==
    IF Offset(page, limit) < 0 /\ engine = "postgresql" THEN "DataError" ELSE "None"

\* the answer of a handler that returns a plain list
ListAnswer(page, limit) ==
    [NoResponse EXCEPT !.error = PagedQueryError(page, limit)]

\* the answer of a handler that returns the list in a pagination envelope
EnvelopeAnswer(page, limit, total_count, env) ==
    IF PagedQueryError(page, limit) # "None"
    THEN [NoResponse EXCEPT !.error = PagedQueryError(page, limit)]
    ELSE IF limit = 0
    THEN [NoResponse EXCEPT !.error = "ZeroDivisionError"]
    ELSE [NoResponse EXCEPT !.error = "None", !.total_count = total_count,
                            !.envelope = env]

\* GET /recipes: page: int = 1, limit: int = 20, then RecipeService.get_recipes
get_recipes_paged(page, limit, total_count) ==
    /\ response' = EnvelopeAnswer(page, limit, total_count,
                                   IF limit = 0 THEN NoEnvelope
                                   ELSE get_recipes_envelope(page, limit, total_count))
    /\ UNCHANGED <<engine, auxvars, dbvars, ncalls, last, concvars, pagevars, catalog, request>>

\* GET /search: page and limit are validated, then SearchService.search_recipes
search_recipes_paged(page, limit, total_count) ==
    /\ response' =
         IF ValidPage(page) /\ ValidLimit(limit)
         THEN EnvelopeAnswer(page, limit, total_count,
                             search_recipes_envelope(page, limit, total_count))
         ELSE [NoResponse EXCEPT !.error = "RequestValidationError"]
    /\ UNCHANGED <<engine, auxvars, dbvars, ncalls, last, concvars, pagevars, catalog, request>>

\* GET /recipes/user/{user_id}, then RecipeService.get_user_recipes
get_user_recipes(page, limit) ==
    /\ response' = ListAnswer(page, limit)
    /\ UNCHANGED <<engine, auxvars, dbvars, ncalls, last, concvars, pagevars, catalog, request>>

\* GET /favorites, then RecipeService.get_user_favorites
get_user_favorites(page, limit) ==
    /\ response' = ListAnswer(page, limit)
    /\ UNCHANGED <<engine, auxvars, dbvars, ncalls, last, concvars, pagevars, catalog, request>>

\* GET /social/ratings/{recipe_id} and GET /recipes/{recipe_id}/ratings, then
\* RecipeService.get_recipe_ratings
get_recipe_ratings(page, limit) ==
    /\ response' = ListAnswer(page, limit)
    /\ UNCHANGED <<engine, auxvars, dbvars, ncalls, last, concvars, pagevars, catalog, request>>

\* the list routes
PagedOps == {"get_recipes", "search_recipes", "get_user_recipes", "get_user_favorites",
             "get_recipe_ratings"}

\* page and limit as a client may send them: below, inside and above the bounds
PageInputs == (0 - 1)..MaxPage
LimitInputs == (0..MaxLimit) \cup {MaxPageLimit, MaxPageLimit + 1}

\* one list request, its page and limit not yet validated
InitPageBounds ==
    /\ engine \in Engines
    /\ recipes = [r \in RecipeIds |-> NewRecipe]
    /\ ratings = {}
    /\ favorites = {}
    /\ nextRatingId = 1
    /\ nextFavoriteId = 1
    /\ ncalls = 0
    /\ last = NoCall
    /\ tx = [p \in Procs |-> IdleTx]
    /\ writeLock = 0
    /\ pgIn \in [page : PageInputs, limit : LimitInputs, total_count : 0..MaxTotal]
    /\ envelope = NoEnvelope
    /\ catalog = <<>>
    /\ request \in {[NoRequest EXCEPT !.op = op] : op \in PagedOps}
    /\ response = NoResponse
    /\ users = {}
    /\ now = 0
    /\ rate_limiter = <<>>
    /\ middleware = <<>>
    /\ passed = <<>>
    /\ tracked = NoTracking
    /\ settings = NoSettings

NextPageBounds ==
    \/ /\ request.op = "get_recipes"
       /\ get_recipes_paged(pgIn.page, pgIn.limit, pgIn.total_count)
    \/ /\ request.op = "search_recipes"
       /\ search_recipes_paged(pgIn.page, pgIn.limit, pgIn.total_count)
    \/ /\ request.op = "get_user_recipes"
       /\ get_user_recipes(pgIn.page, pgIn.limit)
    \/ /\ request.op = "get_user_favorites"
       /\ get_user_favorites(pgIn.page, pgIn.limit)
    \/ /\ request.op = "get_recipe_ratings"
       /\ get_recipe_ratings(pgIn.page, pgIn.limit)

\* one list request with any page and limit
SpecPageBounds == InitPageBounds /\ [][NextPageBounds]_vars

\* ---- registration ----

\* usernames and e-mail addresses a client may register with
UserNames == {"ann", "bob", "cyd"}
Emails == {"ann@yumzy", "bob@yumzy", "cyd@yumzy"}

\* db.query(User).filter(User.username == user_data.username).first()
UsernameTaken(rows, username) == \E row \in rows : row.username = username

\* db.query(User).filter(User.email == user_data.email).first()
EmailTaken(rows, email) == \E row \in rows : row.email = email

\* the User row register_user adds; ids are handed out in order
NewUser(rows, username, email) ==
    [id |-> Cardinality(rows) + 1, username |-> username, email |-> email]

\* POST /auth/register
register_user(username, email) ==
    /\ ncalls < MaxRegisterCalls
    /\ ncalls' = ncalls + 1
    /\ request' = [NoRequest EXCEPT !.op = "register_user",
                                    !.payload = [username |-> username, email |-> email]]
    /\ IF UsernameTaken(users, username) \/ EmailTaken(users, email)
       THEN /\ response' = [NoResponse EXCEPT !.error = "HTTPException_400"]
            /\ UNCHANGED users
       ELSE /\ users' = users \cup {NewUser(users, username, email)}
            /\ response' = [NoResponse EXCEPT !.error = "None"]
    /\ UNCHANGED <<engine, limvars, tracked, dbvars, last, concvars, pagevars, catalog>>

NextRegister ==
    \E username \in UserNames, email \in Emails : register_user(username, email)

\* sequential registrations, starting with no users
SpecRegister == Init /\ [][NextRegister]_vars

\* ---- results annotated for the caller ----

\* recipes of two authors, published and private
AnnotateProfiles ==
    { BaseRecipe,
      [BaseRecipe EXCEPT !.is_published = Some(FALSE), !.ingredients = {Egg},
          !.average_rating = <<5, 1>>, !.rating_count = 1, !.view_count = 0],
      [BaseRecipe EXCEPT !.author_id = 2, !.title = Tea] }

\* favorite and rating rows that earlier requests of users 1 and 2 left behind,
\* at most one row for a user and a recipe
AnnotateFavorites == SUBSET {NewFavorite(1, 1, 1), NewFavorite(2, 2, 1), NewFavorite(3, 2, 2)}
AnnotateRatings ==
    SUBSET {NewRating(1, 1, 1, 5, NoComment), NewRating(2, 2, 1, 2, NoComment),
            NewRating(3, 2, 2, 4, "tasty")}

\* a first page without filters from each list route, and every detail request
AnnotateRequests ==
    {req \in SearchRequests \cup ListRequests :
        req.page = 1 /\ req.limit = MaxCatalogLimit /\ req.filters = NoFilters}
    \cup DetailRequests

InitAnnotate ==
    /\ engine = "postgresql"
    /\ recipes = [r \in RecipeIds |-> NewRecipe]
    /\ ratings \in AnnotateRatings
    /\ favorites \in AnnotateFavorites
    /\ nextRatingId = Cardinality(ratings) + 1
    /\ nextFavoriteId = Cardinality(favorites) + 1
    /\ ncalls = 0
    /\ last = NoCall
    /\ tx = [p \in Procs |-> IdleTx]
    /\ writeLock = 0
    /\ pgIn = NoPage
    /\ envelope = NoEnvelope
    /\ \E profile \in [CatalogIds -> AnnotateProfiles] :
         catalog = [id \in CatalogIds |-> StoredRecipe(profile[id], id)]
    /\ request \in AnnotateRequests
    /\ response = NoResponse
    /\ users = {}
    /\ now = 0
    /\ rate_limiter = <<>>
    /\ middleware = <<>>
    /\ passed = <<>>
    /\ tracked = NoTracking
    /\ settings = NoSettings

NextAnnotate ==
    \/ /\ request.op = "search_recipes"
       /\ search_recipes_route(request.filters, request.page, request.limit, request.user_id)
    \/ /\ request.op = "get_recipes"
       /\ get_recipes(request.page, request.limit, request.filters, request.user_id)
    \/ /\ request.op = "get_recipe_detailed"
       /\ get_recipe_detailed(request.recipe_id, request.user_id)

\* one read request over a store that holds favorites and ratings
SpecAnnotate == InitAnnotate /\ [][NextAnnotate]_vars

\* ---- rate limiting ----

\* fault: one call more than the limit gets through
AtLimit_OffByOne(count, limit) == count > limit

\* if len(self.requests[identifier]) >= limit: return False
AtLimit(count, limit) == count >= limit

\* [req_time for req_time in times if req_time > cutoff]
Recent(times, cutoff) == SelectSeq(times, LAMBDA req_time : req_time > cutoff)

\* the entry of one call in the log: who called, when, and whether it got through
Call(identifier, time, allowed) ==
    [identifier |-> identifier, time |-> time, allowed |-> allowed]

\* RateLimiter.is_allowed(identifier, limit, window)
is_allowed(identifier, limit, window) ==
    LET cutoff == now - window
        kept == IF identifier \in DOMAIN rate_limiter
                THEN Recent(rate_limiter[identifier], cutoff)
                ELSE <<>>
        allowed == ~AtLimit(Len(kept), limit)
    IN /\ Len(passed) < MaxLimiterCalls
       /\ rate_limiter' =
             [id \in DOMAIN rate_limiter \cup {identifier} |->
                IF id # identifier THEN rate_limiter[id]
                ELSE IF allowed THEN Append(kept, now) ELSE kept]
       /\ passed' = Append(passed, Call(identifier, now, allowed))
       /\ UNCHANGED <<engine, users, tracked, now, middleware, settings, catvars, dbvars,
                      ncalls, last, concvars, pagevars>>

\* RateLimitMiddleware.dispatch for a request of client_ip
dispatch(client_ip) ==
    LET minute_ago == now - MinuteSeconds
        cleaned == [ip \in DOMAIN middleware |-> Recent(middleware[ip], minute_ago)]
        allowed == IF client_ip \in DOMAIN cleaned
                   THEN ~AtLimit(Len(cleaned[client_ip]), settings.limit)
                   ELSE TRUE
    IN /\ Len(passed) < MaxLimiterCalls
       /\ middleware' =
             [ip \in DOMAIN cleaned \cup {client_ip} |->
                IF ip # client_ip THEN cleaned[ip]
                ELSE IF client_ip \notin DOMAIN cleaned THEN <<now>>
                ELSE IF allowed THEN Append(cleaned[ip], now) ELSE cleaned[ip]]
       /\ passed' = Append(passed, Call(client_ip, now, allowed))
       /\ UNCHANGED <<engine, users, tracked, now, rate_limiter, settings, catvars, dbvars,
                      ncalls, last, concvars, pagevars>>

\* datetime.utcnow() and time.time() between two calls: the clock moves on by a
\* second or by just under a minute; ncalls counts these steps
Tick(seconds) ==
    /\ ncalls < MaxTicks
    /\ ncalls' = ncalls + 1
    /\ now' = now + seconds
    /\ UNCHANGED <<engine, users, tracked, rate_limiter, middleware, passed, settings,
                   catvars, dbvars, last, concvars, pagevars>>

TickSteps == {1, MinuteSeconds - 1}

\* identifiers check_rate_limit builds and client addresses
Identifiers == {"user_1", "ip_10.0.0.1"}

\* the limiter under test with its limit and window
LimiterSettings ==
    {[limiter |-> "RateLimiter", limit |-> limit, window |-> window] :
        limit \in 1..MaxRateLimit, window \in {1, MinuteSeconds}}
    \cup
    {[limiter |-> "RateLimitMiddleware", limit |-> limit, window |-> MinuteSeconds] :
        limit \in 1..MaxRateLimit}

\* a limiter that has seen no call
InitLimiter ==
    /\ engine = "postgresql"
    /\ recipes = [r \in RecipeIds |-> NewRecipe]
    /\ ratings = {}
    /\ favorites = {}
    /\ nextRatingId = 1
    /\ nextFavoriteId = 1
    /\ ncalls = 0
    /\ last = NoCall
    /\ tx = [p \in Procs |-> IdleTx]
    /\ writeLock = 0
    /\ pgIn = NoPage
    /\ envelope = NoEnvelope
    /\ catalog = <<>>
    /\ request = NoRequest
    /\ response = NoResponse
    /\ users = {}
    /\ now = 0
    /\ rate_limiter = <<>>
    /\ middleware = <<>>
    /\ passed = <<>>
    /\ tracked = NoTracking
    /\ settings \in LimiterSettings

NextLimiter ==
    \/ /\ settings.limiter = "RateLimiter"
       /\ \E identifier \in Identifiers :
            is_allowed(identifier, settings.limit, settings.window)
    \/ /\ settings.limiter = "RateLimitMiddleware"
       /\ \E client_ip \in Identifiers : dispatch(client_ip)
    \/ \E seconds \in TickSteps : Tick(seconds)

\* calls to one limiter as time passes
SpecLimiter == InitLimiter /\ [][NextLimiter]_vars

\* ---- properties ----

\* a step that issues a request in the sequential specifications
Request == ncalls' = ncalls + 1

FavoritesOfRecipe(rows, recipe_id) == {row \in rows : row.recipe_id = recipe_id}

\* avg is the exact mean of the rating values of rows (0 for no rows)
IsMeanOf(avg, rows) ==
    IF rows = {} THEN avg = <<0, 1>>
    ELSE avg[2] > 0 /\ avg[1] * Cardinality(rows) = SumRating(rows) * avg[2]

\* the recipe's stored aggregates agree with its committed rating rows
AggregatesMatch(recipe_id) ==
    /\ recipes[recipe_id].rating_count = Cardinality(RatingsOfRecipe(ratings, recipe_id))
    /\ IsMeanOf(recipes[recipe_id].average_rating, RatingsOfRecipe(ratings, recipe_id))

\* two different workers whose last requests are both answered
BothDone(p, q) == p # q /\ tx[p].pc = "done" /\ tx[q].pc = "done"

\* C1: after any sequence of completed create_rating calls every recipe has
\* rating_count = number of its rating rows and average_rating = their mean
\* (0 when it has none).
C1_AggregatesMatchRatings == \A r \in DOMAIN recipes : AggregatesMatch(r)

\* ratings 5 and 3 by two users leave average 4.0 and count 2
C1_Witness ==
    /\ last.op = "create_rating" /\ last.error = "None"
    /\ \E a, b \in RatingsOfRecipe(ratings, 1) :
         /\ a.user_id # b.user_id /\ a.rating = 5 /\ b.rating = 3
         /\ RatingsOfRecipe(ratings, 1) = {a, b}
    /\ recipes[1].average_rating = <<4, 1>>
    /\ recipes[1].rating_count = 2

\* C2: a successful create_rating by user u on recipe r leaves exactly one row
\* for (u, r), holding the call's value and comment; it inserts one row when
\* none existed and otherwise rewrites the existing row in place; no request
\* touches the rows of another (user, recipe) pair.
C2_UpsertKeepsOneRow ==
    [][Request =>
         LET u == last'.user_id
             r == last'.recipe_id
             before == MatchingRatings(ratings, r, u)
             after == MatchingRatings(ratings', r, u)
         IN IF last'.op = "create_rating" /\ last'.error = "None"
            THEN /\ Cardinality(after) = 1
                 /\ \A row \in after : row.rating = last'.rating
                                       /\ row.comment = last'.comment
                 /\ ratings' \ after = ratings \ before
                 /\ before # {} => {row.id : row \in after} = {row.id : row \in before}
                 /\ before = {} => \A row \in after : row.id \notin {x.id : x \in ratings}
            ELSE ratings' = ratings]_vars

\* a second submission (value 2) found the user's row and rewrote it
C2_Witness ==
    /\ last.op = "create_rating" /\ last.error = "None" /\ last.existed
    /\ last.rating = 2
    /\ \E row \in ratings :
         /\ MatchingRatings(ratings, last.recipe_id, last.user_id) = {row}
         /\ row.id = last.rating_id /\ row.rating = 2

\* C3: once two concurrent create_rating calls by different users for the
\* same recipe have both committed, the recipe's rating_count and
\* average_rating reflect both ratings.
C3_ConcurrentRatingsReflected ==
    \A p, q \in Procs :
        ( /\ BothDone(p, q)
          /\ tx[p].op = "create_rating" /\ tx[q].op = "create_rating"
          /\ tx[p].error = "None" /\ tx[q].error = "None"
          /\ tx[p].user_id # tx[q].user_id
          /\ tx[p].recipe_id = tx[q].recipe_id )
        => AggregatesMatch(tx[p].recipe_id)

\* C4: update_rating and delete_rating complete for the rating's owner and
\* leave every recipe's aggregates equal to the count and mean of the
\* ratings that remain.
C4_RatingUpdateDeleteComplete ==
    [][( /\ Request
         /\ last'.op \in {"update_rating", "delete_rating"}
         /\ \E row \in ratings : row.id = last'.rating_id /\ row.user_id = last'.user_id )
       => /\ last'.error = "None"
          /\ last'.op = "delete_rating" => \A row \in ratings' : row.id # last'.rating_id
          /\ \A r \in DOMAIN recipes : AggregatesMatch(r)']_vars

\* C5: add_to_favorites for an already favorited (user, recipe) fails with a
\* Conflict error (409) and changes neither the favorite rows nor the counts.
C5_DuplicateFavoriteConflict ==
    [][( /\ Request
         /\ last'.op = "add_to_favorites"
         /\ is_recipe_favorited(favorites, last'.recipe_id, last'.user_id) )
       => /\ StatusCode(last'.error) = 409
          /\ UNCHANGED <<favorites, recipes>>]_vars

\* C6: remove_from_favorites for a (user, recipe) that is not favorited fails
\* with a NotFound error (404) and changes neither the favorite rows nor the
\* counts.
C6_RemoveMissingFavoriteNotFound ==
    [][( /\ Request
         /\ last'.op = "remove_from_favorites"
         /\ ~is_recipe_favorited(favorites, last'.recipe_id, last'.user_id) )
       => /\ StatusCode(last'.error) = 404
          /\ UNCHANGED <<favorites, recipes>>]_vars

\* C7: a successful add_to_favorites raises the recipe's favorite_count by
\* exactly 1, a successful remove_from_favorites lowers it by exactly 1 but
\* not below 0, no other recipe's count changes, and favorite_count is never
\* negative.
C7_FavoriteCountStep ==
    [][Request =>
         /\ \A r \in DOMAIN recipes :
              /\ recipes'[r].favorite_count >= 0
              /\ recipes'[r].favorite_count =
                   IF last'.error = "None" /\ last'.recipe_id = r
                   THEN IF last'.op = "add_to_favorites"
                        THEN recipes[r].favorite_count + 1
                        ELSE IF recipes[r].favorite_count >= 1
                             THEN recipes[r].favorite_count - 1
                             ELSE 0
                   ELSE recipes[r].favorite_count]_vars

\* a removal succeeded and left the recipe's favorite_count at 0
C7_Witness ==
    /\ last.op = "remove_from_favorites" /\ last.error = "None"
    /\ recipes[last.recipe_id].favorite_count = 0
    /\ ~is_recipe_favorited(favorites, last.recipe_id, last.user_id)

\* C8: once concurrent add_to_favorites / remove_from_favorites calls by
\* different users on the same recipe have all committed, favorite_count
\* equals the number of favorite rows of that recipe.
C8_FavoriteCountMatchesRows ==
    \A p, q \in Procs :
        ( /\ BothDone(p, q)
          /\ {tx[p].op, tx[q].op} \subseteq {"add_to_favorites", "remove_from_favorites"}
          /\ tx[p].error = "None" /\ tx[q].error = "None"
          /\ tx[p].user_id # tx[q].user_id
          /\ tx[p].recipe_id = tx[q].recipe_id )
        => recipes[tx[p].recipe_id].favorite_count =
             Cardinality(FavoritesOfRecipe(favorites, tx[p].recipe_id))

\* C9: once all concurrent calls have committed, at most one rating row and
\* at most one favorite row exists for each (user, recipe) pair.
C9_OneRowPerUserRecipe ==
    (\A p \in Procs : Idle(p)) =>
        \A u \in Users, r \in RecipeIds :
            /\ Cardinality(MatchingRatings(ratings, r, u)) <= 1
            /\ Cardinality(MatchingFavorites(favorites, r, u)) <= 1

\* C10: for page >= 1, limit >= 1 and total_count >= 1 every envelope has
\* total_pages = ceil(total_count / limit), has_next exactly when
\* page < total_pages and has_prev exactly when page > 1.
C10_PaginationEnvelope ==
    (envelope.op # "none" /\ pgIn.total_count >= 1) =>
        /\ envelope.total_pages * pgIn.limit >= pgIn.total_count
        /\ (envelope.total_pages - 1) * pgIn.limit < pgIn.total_count
        /\ envelope.has_next <=> pgIn.page < envelope.total_pages
        /\ envelope.has_prev <=> pgIn.page > 1

\* 9 results, limit 4, page 2: three pages, with a next and a previous page
C10_Witness ==
    /\ envelope.op = "search_recipes"
    /\ pgIn = [page |-> 2, limit |-> 4, total_count |-> 9]
    /\ envelope.total_pages = 3 /\ envelope.has_next /\ envelope.has_prev

\* C11: when the result set is empty (total_count = 0) every envelope,
\* search_recipes and get_recipes included, reports total_pages = 1, the
\* value calculate_pagination gives.
C11_EmptyResultOnePage ==
    (envelope.op # "none" /\ pgIn.total_count = 0) =>
        /\ envelope.total_pages = 1
        /\ envelope.total_pages =
             calculate_pagination(pgIn.page, pgIn.limit, pgIn.total_count).total_pages

\* ---- catalogue properties ----

\* the request under test was a paginated search or list and has been answered
Listed == request.op \in {"search_recipes", "get_recipes"} /\ response # NoResponse
Searched == request.op = "search_recipes" /\ response # NoResponse

\* the recipes on the returned page
Returned == {response.items[i] : i \in DOMAIN response.items}

\* the page holds every row of the result
FullResult == request.page = 1 /\ request.limit >= Cardinality(DOMAIN catalog)

Published(rec) == rec.is_published = Some(TRUE)

\* spec 4.1: only published recipes are eligible unless the requester is the author
Eligible(rec, user_id) == Published(rec) \/ (user_id # Anonymous /\ rec.author_id = user_id)

\* C12: a search or list request for page >= 1 and limit >= 1 returns exactly
\* min(limit, max(0, total_count - (page - 1) * limit)) distinct items; a page
\* beyond total_pages is an empty list with total_count and total_pages as on
\* any other page, and no error.
C12_PageItemCount ==
    Listed =>
        LET offset == (request.page - 1) * request.limit
        IN /\ response.error = "None"
           /\ Len(response.items) =
                  Min(request.limit, Max(0, response.total_count - offset))
           /\ Cardinality(Returned) = Len(response.items)
           /\ response.envelope.total_pages * request.limit >= response.total_count
           /\ response.total_count > 0 =>
                  (response.envelope.total_pages - 1) * request.limit < response.total_count
           /\ request.page > response.envelope.total_pages => response.items = <<>>

\* two matching recipes, limit 2: page 2 lies beyond the single page and is empty
C12_Witness ==
    /\ Listed
    /\ request.page = 2 /\ request.limit = 2
    /\ response.total_count = 2 /\ response.envelope.total_pages = 1
    /\ response.items = <<>> /\ response.error = "None"

\* C13: with is_vegan=true no returned recipe has is_vegan false or unset; the
\* same for is_vegetarian and is_gluten_free.
C13_DietaryTrueOnlyTrue ==
    Listed =>
        \A id \in Returned :
            /\ response.filters.is_vegan = Some(TRUE) => catalog[id].is_vegan = Some(TRUE)
            /\ response.filters.is_vegetarian = Some(TRUE) =>
                   catalog[id].is_vegetarian = Some(TRUE)
            /\ response.filters.is_gluten_free = Some(TRUE) =>
                   catalog[id].is_gluten_free = Some(TRUE)

\* is_vegan=true over a catalogue holding one vegan recipe and one published
\* recipe whose is_vegan is unset: only the vegan one comes back
C13_Witness ==
    /\ Listed
    /\ response.filters.is_vegan = Some(TRUE)
    /\ Cardinality(Returned) = 1
    /\ \E id \in DOMAIN catalog :
           /\ Published(catalog[id]) /\ catalog[id].is_vegan = None
           /\ id \notin Returned

\* the recipe meets every filter the request supplied with a non-null value
MeetsSupplied(rec, filters) ==
    /\ filters.cuisine_type # None => rec.cuisine_type = filters.cuisine_type
    /\ filters.meal_type # None => rec.meal_type = filters.meal_type
    /\ filters.difficulty_level # None => rec.difficulty_level = filters.difficulty_level
    /\ filters.is_vegetarian # None => rec.is_vegetarian = filters.is_vegetarian
    /\ filters.is_vegan # None => rec.is_vegan = filters.is_vegan
    /\ filters.is_gluten_free # None => rec.is_gluten_free = filters.is_gluten_free
    /\ filters.max_prep_time # None =>
           rec.prep_time # None /\ rec.prep_time[1] <= filters.max_prep_time[1]
    /\ filters.max_cook_time # None =>
           rec.cook_time # None /\ rec.cook_time[1] <= filters.max_cook_time[1]
    /\ filters.min_rating # None =>
           rec.average_rating[1] >= filters.min_rating[1] * rec.average_rating[2]

\* C14: every returned recipe satisfies every filter supplied with a non-null
\* value, as a conjunction, also when the supplied value is 0, "" or false.
C14_SuppliedFiltersHold ==
    Listed => \A id \in Returned : MeetsSupplied(catalog[id], response.filters)

\* the recipe holds an ingredient whose name is in the list
HasListed(rec, names) == \E i \in DOMAIN names : names[i] \in rec.ingredients

\* C15: with a non-empty ingredient list the full result of search_recipes is
\* exactly the eligible recipes that hold at least one listed ingredient and
\* satisfy all other supplied filters.
C15_IngredientAnyMatch ==
    (Searched /\ FullResult /\ response.filters.ingredients # <<>>) =>
        Returned = {id \in DOMAIN catalog :
                      /\ Eligible(catalog[id], request.user_id)
                      /\ HasListed(catalog[id], response.filters.ingredients)
                      /\ MeetsSupplied(catalog[id], response.filters)
                      /\ TruthyText(response.filters.query) =>
                             \/ ILike(catalog[id].title, response.filters.query[1])
                             \/ /\ catalog[id].description # None
                                /\ ILike(catalog[id].description[1],
                                         response.filters.query[1])}

\* C16: a recipe is eligible exactly when it is published or the requester is
\* its author: no unpublished recipe goes to another caller, and with no
\* filter the author gets the own unpublished recipes as well.
C16_EligibleIffPublishedOrAuthor ==
    Listed =>
        /\ \A id \in Returned : Eligible(catalog[id], request.user_id)
        /\ (FullResult /\ response.filters = NoFilters) =>
               \A id \in DOMAIN catalog :
                   Eligible(catalog[id], request.user_id) => id \in Returned

\* average_rating * rating_count + view_count of a is at least that of b
ScoreGe(a, b) ==
    (a.average_rating[1] * a.rating_count + a.view_count * a.average_rating[2])
        * b.average_rating[2]
    >= (b.average_rating[1] * b.rating_count + b.view_count * b.average_rating[2])
        * a.average_rating[2]

\* the sort key the claim gives a search: relevance when a text query or an
\* ingredient filter is present, creation time otherwise
KeyGe(a, b) ==
    IF TruthyText(response.filters.query) \/ response.filters.ingredients # <<>>
    THEN ScoreGe(a, b)
    ELSE a.created_at >= b.created_at

\* the recipes the answered search selected (all pages)
Selected == {id \in DOMAIN catalog : SearchWhere(catalog[id], response.filters)}

\* C18: search_recipes returns its items in non-increasing order of relevance
\* when a text query or an ingredient filter is present and of creation time
\* otherwise, and the page is cut out of that order: item k of the page is
\* at position offset + k of the sorted result.
C18_SearchOrder ==
    Searched =>
        LET offset == (request.page - 1) * request.limit
        IN /\ \A i, j \in DOMAIN response.items :
                  i < j => KeyGe(catalog[response.items[i]], catalog[response.items[j]])
           /\ \A k \in DOMAIN response.items :
                  LET rec == catalog[response.items[k]]
                  IN /\ Cardinality({id \in Selected : ~KeyGe(rec, catalog[id])})
                            <= offset + k - 1
                     /\ Cardinality({id \in Selected : KeyGe(catalog[id], rec)})
                            >= offset + k

\* a text search returns two recipes, the more relevant one first although it
\* is the older one
C18_Witness ==
    /\ Searched
    /\ TruthyText(response.filters.query)
    /\ Len(response.items) = 2
    /\ ~ScoreGe(catalog[response.items[2]], catalog[response.items[1]])
    /\ catalog[response.items[1]].created_at < catalog[response.items[2]].created_at

\* C19: get_trending_recipes returns at most limit published recipes in
\* non-increasing order of average_rating * rating_count + view_count.
C19_TrendingByRelevance ==
    (request.op = "get_trending_recipes" /\ response # NoResponse) =>
        /\ Len(response.items) <= request.limit
        /\ \A id \in Returned : Published(catalog[id])
        /\ \A i, j \in DOMAIN response.items :
               i < j => ScoreGe(catalog[response.items[i]], catalog[response.items[j]])

\* C17: get_recipe_detailed returns a published recipe to every caller and an
\* unpublished one to its author only; any other user and an unauthenticated
\* caller get AccessDenied, and an id that does not exist gets NotFound.
C17_DetailVisibility ==
    (request.op = "get_recipe_detailed" /\ response # NoResponse) =>
        IF request.recipe_id \notin DOMAIN catalog
        THEN response.error = "RecipeNotFoundError" /\ StatusCode(response.error) = 404
        ELSE IF Eligible(catalog[request.recipe_id], request.user_id)
        THEN response.error = "None" /\ response.items = <<request.recipe_id>>
        ELSE response.error = "RecipeAccessDeniedError" /\ StatusCode(response.error) = 403

\* an unauthenticated caller asks for an unpublished recipe and is refused
C17_Witness ==
    /\ request.op = "get_recipe_detailed"
    /\ request.user_id = Anonymous
    /\ request.recipe_id \in DOMAIN catalog
    /\ ~Published(catalog[request.recipe_id])
    /\ response.error = "RecipeAccessDeniedError"

\* C20: update_recipe and delete_recipe on an existing recipe by a user who is
\* not its author fail with AccessDenied whatever the payload, valid or
\* invalid, and leave the catalogue unchanged.
C20_NonAuthorDenied ==
    [][(/\ request.op \in {"update_recipe", "delete_recipe"}
        /\ request.recipe_id \in DOMAIN catalog
        /\ catalog[request.recipe_id].author_id # request.user_id)
       => (/\ response'.error = "RecipeAccessDeniedError"
           /\ catalog' = catalog)]_vars

\* C28: in sequential executions that start from newly created recipes, after
\* any sequence of add_to_favorites and remove_from_favorites calls every
\* recipe's favorite_count equals the number of favorite rows that reference it.
C28_SequentialFavoriteCount ==
    \A recipe_id \in DOMAIN recipes :
        recipes[recipe_id].favorite_count =
            Cardinality(FavoritesOfRecipe(favorites, recipe_id))

\* a recipe with two favorite rows and counter 2, after a refused duplicate add
C28_Witness ==
    /\ last.op = "add_to_favorites"
    /\ last.error = "ValueError"
    /\ \E recipe_id \in DOMAIN recipes :
         /\ recipes[recipe_id].favorite_count = 2
         /\ Cardinality(FavoritesOfRecipe(favorites, recipe_id)) = 2

\* C25: a rating submission whose value is outside 1..5 is rejected with a
\* Validation error and changes no rating row and no aggregate; in every
\* reachable state each stored rating value is in 1..5 and each recipe's
\* average_rating is 0 (no ratings) or between 1 and 5.
C25_RatingRange ==
    /\ [](/\ \A row \in ratings : row.rating \in MinRating..MaxRating
          /\ \A recipe_id \in DOMAIN recipes :
               LET avg == recipes[recipe_id].average_rating
               IN IF RatingsOfRecipe(ratings, recipe_id) = {}
                  THEN avg[1] = 0
                  ELSE MinRating * avg[2] <= avg[1] /\ avg[1] <= MaxRating * avg[2])
    /\ [][\A v \in SubmittedRatings \ (MinRating..MaxRating) :
            (\/ \E u \in Users, r \in RequestRecipeIds :
                  create_rating_route(u, r, v, NoComment)
             \/ \E id \in 1..nextRatingId, u \in Users :
                  update_rating_route(id, v, NoComment, u))
            => (/\ last'.error = "RequestValidationError"
                /\ StatusCode(last'.error) = 422
                /\ ratings' = ratings
                /\ recipes' = recipes)]_vars

\* a rating of 6 for an existing, already rated recipe was refused
C25_Witness ==
    /\ last.op = "create_rating"
    /\ last.rating = MaxRating + 1
    /\ last.recipe_id \in DOMAIN recipes
    /\ last.error = "RequestValidationError"
    /\ RatingsOfRecipe(ratings, last.recipe_id) # {}

\* C21: track_recipe_view never propagates an error to its caller, for an
\* existing recipe, a missing recipe id or a failing store; the outcome of the
\* enclosing get_recipe request (the recipe, NotFound or AccessDenied) is the
\* same whether the view tracking succeeded or failed.
C21_TrackingNeverFails ==
    /\ tracked.raised = "None"
    /\ (request.op = "get_recipe" /\ response # NoResponse) =>
          IF request.recipe_id \notin DOMAIN catalog
          THEN response = RecipeAnswer("RecipeNotFoundError", <<>>)
          ELSE IF Eligible(catalog[request.recipe_id], request.user_id)
          THEN response.error = "None" /\ response.items = <<request.recipe_id>>
          ELSE response = RecipeAnswer("RecipeAccessDeniedError", <<>>)

\* a recipe was returned although the store failed while its view was tracked
C21_Witness ==
    /\ request.op = "get_recipe"
    /\ response.error = "None"
    /\ tracked.store = "failed"
    /\ tracked.calls = 1

\* C29: a recipe's view_count never decreases: under any interleaving of
\* concurrent track_recipe_view calls every committed value of view_count is at
\* least the previously committed value.
C29_ViewCountMonotone ==
    [][\A id \in DOMAIN catalog : catalog'[id].view_count >= catalog[id].view_count]_vars

\* the similar-recipes request has been answered
SimilarAnswered ==
    /\ request.op \in {"get_similar_recipes", "recommendation_get_similar_recipes"}
    /\ response # NoResponse

\* C22: get_similar_recipes(r, N), in both RecipeService and
\* RecommendationService, returns at most N recipes, never r itself, never an
\* unpublished recipe, never the same recipe twice, and every returned recipe
\* has r's cuisine_type or r's meal_type.
C22_SimilarContract ==
    SimilarAnswered =>
        /\ Len(response.items) <= request.limit
        /\ \A i \in DOMAIN response.items :
             LET rec == catalog[response.items[i]]
             IN /\ response.items[i] # request.recipe_id
                /\ Published(rec)
                /\ \A j \in DOMAIN response.items : j # i =>
                       response.items[j] # response.items[i]
                /\ \/ rec.cuisine_type = catalog[request.recipe_id].cuisine_type
                   \/ rec.meal_type = catalog[request.recipe_id].meal_type

\* RecommendationService filled its list from the cuisine-only pass
C22_Witness ==
    /\ request.op = "recommendation_get_similar_recipes"
    /\ Len(response.items) = 2
    /\ catalog[response.items[1]].meal_type = catalog[request.recipe_id].meal_type
    /\ catalog[response.items[2]].meal_type # catalog[request.recipe_id].meal_type

\* C23: the list returned by get_similar_recipes is in non-increasing
\* average_rating order over the whole list, including the entries that
\* RecommendationService appends from its cuisine-only pass.
C23_SimilarOrder ==
    SimilarAnswered =>
        \A i, j \in DOMAIN response.items : i < j =>
            RatGe(catalog[response.items[i]].average_rating,
                  catalog[response.items[j]].average_rating)

\* C24: every paginated list operation (GET /recipes, GET /search,
\* GET /recipes/user/{id}, GET /favorites, GET ratings of a recipe) called with
\* page < 1 or with limit outside 1..100 ends in a Validation error and
\* computes no page.
C24_PageLimitValidated ==
    (request.op \in PagedOps /\ response # NoResponse
        /\ (pgIn.page < 1 \/ pgIn.limit < 1 \/ pgIn.limit > MaxPageLimit))
    => (/\ response.error = "RequestValidationError"
        /\ StatusCode(response.error) = 422
        /\ response.envelope = NoEnvelope)

\* C26: register_user called with a username or an email that already belongs
\* to a user fails with a Conflict error and adds no user, so after any
\* sequence of sequential registrations no two users share a username or an
\* email.
C26_DuplicateUserConflict ==
    /\ [](\A a, b \in users : (a.username = b.username \/ a.email = b.email) => a = b)
    /\ [][(/\ ncalls' = ncalls + 1
           /\ request'.op = "register_user"
           /\ \/ UsernameTaken(users, request'.payload.username)
              \/ EmailTaken(users, request'.payload.email))
          => (/\ response'.error = "UserAlreadyExistsError"
              /\ StatusCode(response'.error) = 409
              /\ users' = users)]_vars

AllowedCalls(identifier) ==
    {i \in DOMAIN passed : passed[i].identifier = identifier /\ passed[i].allowed}

\* the lists of the limiter under test
Recorded == IF settings.limiter = "RateLimiter" THEN rate_limiter ELSE middleware

====
